---- MODULE Spec2Model ----
(***************************************************************************)
(* A model of the socks5-pool forwarding proxy:                            *)
(*   - ProxyPool (status.go:355-436): a slice of proxies and the index of  *)
(*     the active one, guarded by a sync.RWMutex;                          *)
(*   - the goroutines that use it: refreshPool (Update), the HTTP control  *)
(*     surface (handleSwitch, getStatusData), a caller of All(), and the   *)
(*     SOCKS5 connection handler (handleConn).                             *)
(* Every pool method is modelled at the grain of its lock: acquiring the   *)
(* mutex, each write of a field made under it, and releasing it are        *)
(* separate steps, so that atomicity is a consequence of the mutex and not *)
(* of the model.  Slices are references into a heap of backing arrays, so  *)
(* that aliasing (Update stores its argument, All copies) is visible.      *)
(***************************************************************************)
EXTENDS Integers, Sequences, FiniteSets, TLC

\* ------------------------------------------------------------------ bounds
\* Longest list of verified proxies handed to Update; also the number of
\* distinct proxies.
MaxLen == 3
\* Backing arrays that can be live at once (pool, Update argument, snapshot).
MaxArrays == 3

\* ----------------------------------------------------------------- values
Threads == {"refresh", "switch", "status", "caller", "conn", "rotate", "trigger", "main"}
NoThread == "none"

\* scraper.go:14-19: a Proxy value, abstracted to its identity (ip, port).
Proxies == 1..MaxLen
NoProxy == 0

\* A nil slice, and the addresses of backing arrays.
Nil == 0
Addrs == 1..MaxArrays

Asc(k) == [j \in 1..k |-> j]
Desc(k) == [j \in 1..k |-> MaxLen + 1 - j]
\* The lists CheckProxies hands to Update: duplicate free, of every length up
\* to MaxLen, and the longest one in two different orders.
Lists == {Asc(k) : k \in 0..MaxLen} \cup {Desc(MaxLen)}

VARIABLES
    heap,       \* backing arrays: address -> sequence of proxies
    proxies,    \* ProxyPool.proxies: Nil or the address of its array
    current,    \* ProxyPool.current
    muW,        \* ProxyPool.mu: the thread holding the write lock
    muR,        \* ProxyPool.mu: the threads holding a read lock
    pc,         \* each thread's position
    call,       \* each thread's pool call in progress
    snap,       \* getStatusData: local `proxies` (the slice All returned)
    activeIdx,  \* getStatusData: local `activeIdx`
    held,       \* a caller of All(): the slice it was given
    writes,     \* a caller of All(): the writes it made to that slice
    io,         \* handleConn: what was read from and written to the client
    target,     \* handleConn: targetAddr
    i,          \* handleConn: the retry loop's counter
    sel,        \* handleConn: the upstream selections made, in order
    dials,      \* handleConn: the upstream dials made, in order
    relayed,    \* handleConn: chunks relay copied to the client
    fwd,        \* handleConn: the connect request the serving upstream was sent
    clientOpen, \* handleConn: the client socket is open
    upOpen,     \* handleConn: upstream sockets opened and not closed
    idx0,       \* the pool's active index when the handler began selecting
    disturbed,  \* another thread changed the pool while the handler selected
    flow,       \* relay: each direction's bytes, from its sender to its receiver
    cp,         \* relay: each cp goroutine's position
    done,       \* relay: the number of values in the channel `done`
    maxConcurrent, \* CheckProxies: its argument
    candidates, \* CheckProxies: len(proxies); the candidates are 1..candidates
    spawned,    \* CheckProxies: the goroutines its loop has started
    sem,        \* CheckProxies: the number of values in the channel `sem`
    wg,         \* CheckProxies: the WaitGroup's counter
    gor,        \* CheckProxies: each candidate's goroutine
    aliveMu,    \* CheckProxies: the goroutine holding `mu`, or 0
    alive,      \* CheckProxies: the slice `alive`
    probed,     \* the candidates checkGoogle was called for
    ckPc,       \* CheckProxies: its own position
    refreshChan,    \* the number of values in the channel refreshChan
    lastScrapeTime, \* lastScrapeTime, in minutes; 0 is the zero time
    nextScrapeTime, \* nextScrapeTime
    now,            \* time.Now(), in minutes
    booted,         \* main has made its initial refreshPool call
    cyc,            \* the refresh cycle in progress, or the last one
    trigs,          \* TriggerRefresh calls made while the cycle was running
    coalesced,      \* the value of trigs the manual cycle in progress answers
    sinceTrigger,   \* manual cycles started since the last TriggerRefresh
    inRefresh,      \* the threads inside refreshPool
    phase,          \* handleConn's setup: the blocking operation it is at
    ops,            \* the blocking operations of this setup, with their deadlines
    silent,         \* the peers that have stopped sending
    upDeadline,     \* the deadline of the upstream socket
    tries           \* dialViaSOCKS5 calls that have failed

lockVars == <<muW, muR>>
statusVars == <<snap, activeIdx>>
callerVars == <<held, writes>>
connVars == <<io, target, i, sel, dials, relayed, idx0, fwd, clientOpen, upOpen>>
relayVars == <<flow, cp, done>>
poolVars == <<heap, proxies, current, lockVars, call, statusVars, callerVars,
              disturbed>>
checkVars == <<maxConcurrent, candidates, spawned, sem, wg, gor, aliveMu, alive,
               probed, ckPc>>
\* What the pool, its callers and the connection handler leave alone.
mainVars == <<refreshChan, lastScrapeTime, nextScrapeTime, now, booted, cyc,
              trigs, coalesced, sinceTrigger, inRefresh>>
setupVars == <<phase, ops, silent, upDeadline, tries>>
sideVars == <<relayVars, checkVars, mainVars, setupVars>>
vars == <<heap, proxies, current, lockVars, pc, call, statusVars, callerVars,
          connVars, disturbed, relayVars, checkVars, mainVars, setupVars>>

\* ------------------------------------------------------------- the heap
\* The value of a slice.
Deref(h, a) == IF a = Nil THEN <<>> ELSE h[a]

\* The pool's sequence as it is now.
PoolSeq == Deref(heap, proxies)

\* Every slice some variable still refers to.
Roots(px, cl, sn, hd) ==
    ({px, sn, hd}
        \cup {cl[t].arg : t \in {u \in Threads : cl[u].op = "Update"}}
        \cup {cl[t].ret[1] : t \in {u \in Threads : cl[u].op = "All"}})
    \ {Nil}

\* Garbage collection: an array nothing refers to is reclaimed.
Collect(h, roots) == [a \in Addrs |-> IF a \in roots THEN h[a] ELSE <<>>]

\* make([]Proxy, n): the lowest address nothing refers to.
FreeAddrs == Addrs \ Roots(proxies, call, snap, held)
NewAddr == CHOOSE a \in FreeAddrs : \A b \in FreeAddrs : a <= b

\* s[k], 0-based as in Go; an index out of range panics.
Panic == -1
At(s, k) == IF k >= 0 /\ k < Len(s) THEN s[k + 1] ELSE Panic

\* ------------------------------------------------------- calls into the pool
NoRet == <<0, FALSE>>
NoPre == <<<<>>, 0>>
NoCall == [op |-> "none", st |-> "idle", arg |-> 0, ret |-> NoRet, pre |-> NoPre]

Writers == {"Update", "SwitchNext", "SwitchTo"}
Readers == {"Current", "CurrentIndex", "All", "Size"}

\* A thread enters a pool method: it is about to take the mutex.
Enter(op, arg) ==
    [op |-> op, st |-> IF op \in Writers THEN "lock" ELSE "rlock",
     arg |-> arg, ret |-> NoRet, pre |-> NoPre]

\* The method's body is done: its result is set and the lock is still held.
Returning(t, op) == call[t].op = op /\ call[t].st = "unlock"

\* A read lock that does not wait for the writer.
CanRLockAlways(w) == TRUE

\* sync.RWMutex: Lock waits for every holder, RLock for a writer.
CanLock(w, r) == w = NoThread /\ r = {}
CanRLock(w) == w = NoThread

\* A write to the pool by a thread other than the connection handler, made
\* after the handler began selecting upstreams, is recorded.
Disturbs(t) ==
    disturbed \/ (t # "conn" /\ pc["conn"] \in {"select", "dial", "relay", "closed"})

\* p.mu.Lock().  `pre` remembers the pool as the method found it.
Lock(t) ==
    /\ call[t].st = "lock"
    /\ CanLock(muW, muR)
    /\ muW' = t
    /\ call' = [call EXCEPT ![t].st = "body", ![t].pre = <<PoolSeq, current>>]
    /\ UNCHANGED <<heap, proxies, current, muR, pc, statusVars, callerVars,
                   connVars, disturbed>>
    /\ UNCHANGED sideVars

\* p.mu.RLock()
RLock(t) ==
    /\ call[t].st = "rlock"
    /\ CanRLock(muW)
    /\ muR' = muR \cup {t}
    /\ call' = [call EXCEPT ![t].st = "body"]
    /\ UNCHANGED <<heap, proxies, current, muW, pc, statusVars, callerVars,
                   connVars, disturbed>>
    /\ UNCHANGED sideVars

\* defer p.mu.Unlock() / defer p.mu.RUnlock(): the method returns to its
\* caller, which goes on in the same step.
Release(t) ==
    /\ muW' = IF call[t].op \in Writers /\ muW = t THEN NoThread ELSE muW
    /\ muR' = IF call[t].op \in Readers THEN muR \ {t} ELSE muR

\* Update: p.proxies = proxies.  The pool now refers to the caller's array.
UpdateSetProxies(t) ==
    /\ call[t].op = "Update" /\ call[t].st = "body"
    /\ proxies' = call[t].arg
    /\ call' = [call EXCEPT ![t].st = "body2", ![t].arg = Nil]
    /\ heap' = Collect(heap, Roots(proxies', call', snap, held))
    /\ disturbed' = Disturbs(t)
    /\ UNCHANGED <<current, pc, lockVars, statusVars, callerVars, connVars>>
    /\ UNCHANGED sideVars

\* Update without the reset of p.current.
UpdateKeepCurrent(t) ==
    /\ call[t].op = "Update" /\ call[t].st = "body2"
    /\ current' = current
    /\ call' = [call EXCEPT ![t].st = "unlock"]
    /\ disturbed' = Disturbs(t)
    /\ UNCHANGED <<heap, proxies, pc, lockVars, statusVars, callerVars, connVars>>
    /\ UNCHANGED sideVars

\* Update: p.current = 0
UpdateSetCurrent(t) ==
    /\ call[t].op = "Update" /\ call[t].st = "body2"
    /\ current' = 0
    /\ call' = [call EXCEPT ![t].st = "unlock"]
    /\ disturbed' = Disturbs(t)
    /\ UNCHANGED <<heap, proxies, pc, lockVars, statusVars, callerVars, connVars>>
    /\ UNCHANGED sideVars

\* SwitchNext without the wrap-around.
NextIndexNoWrap(cur, n) == cur + 1

\* SwitchNext: (p.current + 1) % len(p.proxies)
NextIndex(cur, n) == (cur + 1) % n

\* SwitchNext, under the lock.
SwitchNextBody(t) ==
    /\ call[t].op = "SwitchNext" /\ call[t].st = "body"
    /\ IF Len(PoolSeq) = 0
       THEN /\ call' = [call EXCEPT ![t].st = "unlock", ![t].ret = <<NoProxy, FALSE>>]
            /\ UNCHANGED <<current, disturbed>>
       ELSE /\ current' = NextIndex(current, Len(PoolSeq))
            /\ call' = [call EXCEPT ![t].st = "unlock",
                                    ![t].ret = <<At(PoolSeq, current'), TRUE>>]
            /\ disturbed' = Disturbs(t)
    /\ UNCHANGED <<heap, proxies, pc, lockVars, statusVars, callerVars, connVars>>
    /\ UNCHANGED sideVars

\* SwitchTo with the upper bound off by one.
OutOfRangeOffByOne(index, n) == index < 0 \/ index > n

\* SwitchTo: index < 0 || index >= len(p.proxies)
OutOfRange(index, n) == index < 0 \/ index >= n

\* SwitchTo, under the lock.
SwitchToBody(t) ==
    /\ call[t].op = "SwitchTo" /\ call[t].st = "body"
    /\ IF OutOfRange(call[t].arg, Len(PoolSeq))
       THEN /\ call' = [call EXCEPT ![t].st = "unlock", ![t].ret = <<NoProxy, FALSE>>]
            /\ UNCHANGED <<current, disturbed>>
       ELSE /\ current' = call[t].arg
            /\ call' = [call EXCEPT ![t].st = "unlock",
                                    ![t].ret = <<At(PoolSeq, current'), TRUE>>]
            /\ disturbed' = Disturbs(t)
    /\ UNCHANGED <<heap, proxies, pc, lockVars, statusVars, callerVars, connVars>>
    /\ UNCHANGED sideVars

\* What Current returns for a pool holding sequence s with active index c.
CurrentOf(s, c) == IF Len(s) = 0 THEN <<NoProxy, FALSE>> ELSE <<At(s, c), TRUE>>

\* Current, under the read lock.
CurrentBody(t) ==
    /\ call[t].op = "Current" /\ call[t].st = "body"
    /\ call' = [call EXCEPT ![t].st = "unlock", ![t].ret = CurrentOf(PoolSeq, current)]
    /\ UNCHANGED <<heap, proxies, current, pc, lockVars, statusVars, callerVars,
                   connVars, disturbed>>
    /\ UNCHANGED sideVars

\* CurrentIndex, under the read lock.
CurrentIndexBody(t) ==
    /\ call[t].op = "CurrentIndex" /\ call[t].st = "body"
    /\ call' = [call EXCEPT ![t].st = "unlock", ![t].ret = <<current, TRUE>>]
    /\ UNCHANGED <<heap, proxies, current, pc, lockVars, statusVars, callerVars,
                   connVars, disturbed>>
    /\ UNCHANGED sideVars

\* Size, under the read lock.
SizeBody(t) ==
    /\ call[t].op = "Size" /\ call[t].st = "body"
    /\ call' = [call EXCEPT ![t].st = "unlock", ![t].ret = <<Len(PoolSeq), TRUE>>]
    /\ UNCHANGED <<heap, proxies, current, pc, lockVars, statusVars, callerVars,
                   connVars, disturbed>>
    /\ UNCHANGED sideVars

\* All handing out the pool's own slice.
AllResultAlias(a) == proxies

\* All: result := make([]Proxy, len(p.proxies)), a fresh array at address a.
AllResult(a) == a

\* All, under the read lock: make, then copy(result, p.proxies).
AllBody(t) ==
    /\ call[t].op = "All" /\ call[t].st = "body"
    /\ FreeAddrs # {}
    /\ LET r == AllResult(NewAddr) IN
        /\ heap' = IF r = Nil THEN heap ELSE [heap EXCEPT ![r] = PoolSeq]
        /\ call' = [call EXCEPT ![t].st = "unlock", ![t].ret = <<r, TRUE>>]
    /\ UNCHANGED <<proxies, current, pc, lockVars, statusVars, callerVars,
                   connVars, disturbed>>
    /\ UNCHANGED sideVars

\* ---------------------------------------------------------------- refreshPool
\* refreshPool: CheckProxies built `alive` (nil when nothing passed); the
\* thread calls pool.Update(alive).
refreshPoolUpdate ==
    /\ pc["refresh"] = "idle"
    /\ FreeAddrs # {}
    /\ \E l \in Lists :
        LET a == IF l = <<>> THEN Nil ELSE NewAddr IN
        /\ heap' = IF a = Nil THEN heap ELSE [heap EXCEPT ![a] = l]
        /\ call' = [call EXCEPT !["refresh"] = Enter("Update", a)]
    /\ pc' = [pc EXCEPT !["refresh"] = "update"]
    /\ UNCHANGED <<proxies, current, lockVars, statusVars, callerVars, connVars,
                   disturbed>>
    /\ UNCHANGED sideVars

\* refreshPool: Update returned.
refreshPoolDone ==
    /\ pc["refresh"] = "update"
    /\ Returning("refresh", "Update")
    /\ Release("refresh")
    /\ call' = [call EXCEPT !["refresh"] = NoCall]
    /\ pc' = [pc EXCEPT !["refresh"] = "idle"]
    /\ UNCHANGED <<heap, proxies, current, statusVars, callerVars, connVars,
                   disturbed>>
    /\ UNCHANGED sideVars

\* ---------------------------------------------------------------- handleSwitch
\* The index values a request can carry.
Indexes == (0 - 1)..MaxLen

\* handleSwitch: /api/switch?index=N calls SwitchTo(N).
handleSwitchTo ==
    /\ pc["switch"] = "idle"
    /\ \E index \in Indexes :
        call' = [call EXCEPT !["switch"] = Enter("SwitchTo", index)]
    /\ pc' = [pc EXCEPT !["switch"] = "switch"]
    /\ UNCHANGED <<heap, proxies, current, lockVars, statusVars, callerVars,
                   connVars, disturbed>>
    /\ UNCHANGED sideVars

\* handleSwitch: /api/switch calls SwitchNext().
handleSwitchNext ==
    /\ pc["switch"] = "idle"
    /\ call' = [call EXCEPT !["switch"] = Enter("SwitchNext", 0)]
    /\ pc' = [pc EXCEPT !["switch"] = "switch"]
    /\ UNCHANGED <<heap, proxies, current, lockVars, statusVars, callerVars,
                   connVars, disturbed>>
    /\ UNCHANGED sideVars

\* handleSwitch: the pool call returned and the response is written.
handleSwitchDone ==
    /\ pc["switch"] = "switch"
    /\ call["switch"].st = "unlock"
    /\ Release("switch")
    /\ call' = [call EXCEPT !["switch"] = NoCall]
    /\ pc' = [pc EXCEPT !["switch"] = "idle"]
    /\ UNCHANGED <<heap, proxies, current, statusVars, callerVars, connVars,
                   disturbed>>
    /\ UNCHANGED sideVars

\* --------------------------------------------------------------- getStatusData
\* getStatusData: proxies := s.pool.All()
getStatusAll ==
    /\ pc["status"] = "idle"
    /\ call' = [call EXCEPT !["status"] = Enter("All", 0)]
    /\ pc' = [pc EXCEPT !["status"] = "all"]
    /\ UNCHANGED <<heap, proxies, current, lockVars, statusVars, callerVars,
                   connVars, disturbed>>
    /\ UNCHANGED sideVars

\* getStatusData: activeIdx := s.pool.CurrentIndex()
getStatusIndex ==
    /\ pc["status"] = "all"
    /\ Returning("status", "All")
    /\ Release("status")
    /\ snap' = call["status"].ret[1]
    /\ call' = [call EXCEPT !["status"] = Enter("CurrentIndex", 0)]
    /\ pc' = [pc EXCEPT !["status"] = "index"]
    /\ UNCHANGED <<heap, proxies, current, activeIdx, callerVars, connVars,
                   disturbed>>
    /\ UNCHANGED sideVars

\* getStatusData: the loop marks entry activeIdx of the snapshot active, then
\* s.pool.Current() is called.
getStatusCurrent ==
    /\ pc["status"] = "index"
    /\ Returning("status", "CurrentIndex")
    /\ Release("status")
    /\ activeIdx' = call["status"].ret[1]
    /\ call' = [call EXCEPT !["status"] = Enter("Current", 0)]
    /\ pc' = [pc EXCEPT !["status"] = "current"]
    /\ UNCHANGED <<heap, proxies, current, snap, callerVars, connVars, disturbed>>
    /\ UNCHANGED sideVars

\* getStatusData returns; its locals die.
getStatusReturn ==
    /\ pc["status"] = "current"
    /\ Returning("status", "Current")
    /\ Release("status")
    /\ call' = [call EXCEPT !["status"] = NoCall]
    /\ pc' = [pc EXCEPT !["status"] = "idle"]
    /\ snap' = Nil
    /\ activeIdx' = 0
    /\ heap' = Collect(heap, Roots(proxies, call', snap', held))
    /\ UNCHANGED <<proxies, current, callerVars, connVars, disturbed>>
    /\ UNCHANGED sideVars

\* ------------------------------------------------------------ a caller of All
\* The most writes a caller makes to one snapshot.
MaxWrites == 1

\* A caller asks for the pool's proxies.
callerAll ==
    /\ pc["caller"] = "idle"
    /\ call' = [call EXCEPT !["caller"] = Enter("All", 0)]
    /\ pc' = [pc EXCEPT !["caller"] = "all"]
    /\ UNCHANGED <<heap, proxies, current, lockVars, statusVars, callerVars,
                   connVars, disturbed>>
    /\ UNCHANGED sideVars

\* All returned: the caller holds the slice.
callerHolds ==
    /\ pc["caller"] = "all"
    /\ Returning("caller", "All")
    /\ Release("caller")
    /\ held' = call["caller"].ret[1]
    /\ writes' = 0
    /\ call' = [call EXCEPT !["caller"] = NoCall]
    /\ pc' = [pc EXCEPT !["caller"] = "holding"]
    /\ UNCHANGED <<heap, proxies, current, statusVars, connVars, disturbed>>
    /\ UNCHANGED sideVars

\* The caller overwrites an element of the slice it was given.
callerMutates ==
    /\ pc["caller"] = "holding"
    /\ held # Nil
    /\ writes < MaxWrites
    /\ \E k \in 1..Len(heap[held]), p \in Proxies :
        /\ heap[held][k] # p
        /\ heap' = [heap EXCEPT ![held][k] = p]
    /\ writes' = writes + 1
    /\ UNCHANGED <<proxies, current, lockVars, pc, call, statusVars, held,
                   connVars, disturbed>>
    /\ UNCHANGED sideVars

\* The caller lets go of the slice.
callerDrops ==
    /\ pc["caller"] = "holding"
    /\ held' = Nil
    /\ writes' = 0
    /\ pc' = [pc EXCEPT !["caller"] = "idle"]
    /\ heap' = Collect(heap, Roots(proxies, call, snap, held'))
    /\ UNCHANGED <<proxies, current, lockVars, call, statusVars, connVars,
                   disturbed>>
    /\ UNCHANGED sideVars

\* ------------------------------------------------------------------ handleConn
socks5Version == 5
cmdConnect == 1
atypIPv4 == 1
atypDomain == 3
atypIPv6 == 4
maxRetries == 3
\* The shortest request handleConn goes on to parse.
minRequest == 7
\* The most chunks relay copies to the client in one connection.
MaxRelay == 1

\* Go's buf[lo:hi].
Slice(buf, lo, hi) == SubSeq(buf, lo + 1, hi)

\* What conn.Read returned: an error, or the n bytes buf[:n].
ReadOk(bytes) == [err |-> FALSE, buf |-> bytes]
ReadErr == [err |-> TRUE, buf |-> <<>>]

\* Greetings a client can send: none (error or EOF), one byte, SOCKS4, and
\* a well-formed one.
Greetings == {ReadErr, ReadOk(<<5>>), ReadOk(<<4, 1, 0>>), ReadOk(<<5, 1, 0>>)}

Zeros(n) == [k \in 1..n |-> 0]

\* Requests a client can send after the greeting.
Requests ==
    {ReadErr,
     ReadOk(<<5, 1, 0, 1, 127, 0, 0, 1, 0, 80>>),           \* CONNECT 127.0.0.1:80
     ReadOk(<<5, 2, 0, 1, 127, 0, 0, 1, 0, 80>>),           \* BIND
     ReadOk(<<5, 3, 0, 3, 1, 97, 0, 80>>),                  \* UDP ASSOCIATE
     ReadOk(<<5, 1, 0, 1, 127, 0>>),                        \* CONNECT, 6 bytes
     ReadOk(<<5, 1, 0, 1, 127, 0, 0, 1>>),                  \* IPv4 without port
     ReadOk(<<5, 1, 0, 3, 2, 97, 98, 1, 187>>),             \* CONNECT ab:443
     ReadOk(<<5, 1, 0, 3, 5, 97, 98, 0, 80>>),              \* domain cut short
     ReadOk(<<5, 1, 0, 4>> \o Zeros(15) \o <<1, 0, 80>>),   \* CONNECT [::1]:80
     ReadOk(<<5, 1, 0, 4>> \o Zeros(15) \o <<1>>),          \* IPv6 without port
     ReadOk(<<5, 1, 0, 2, 0, 0, 0, 0, 0, 80>>)}             \* unknown ATYP

\* parseTarget's results: an error, or host and port.
ParseError == [err |-> TRUE, atyp |-> 0, host |-> <<>>, port |-> 0]
NoTarget == ParseError
Target(buf, atyp, host, portOffset) ==
    [err |-> FALSE, atyp |-> atyp, host |-> host,
     port |-> At(buf, portOffset) * 256 + At(buf, portOffset + 1)]

\* parseTarget: the length each address type needs before it is read.
ipv4Len == 10
ipv6Len == 22

\* An IPv4 length check that forgets the port.
ipv4TooShortNoPort(buf) == Len(buf) < ipv4Len - 2

ipv4TooShort(buf) == Len(buf) < ipv4Len
domainLenTooShort(buf, domainLen) == Len(buf) < 5 + domainLen + 2

parseTarget(buf) ==
    IF Len(buf) < minRequest THEN ParseError
    ELSE CASE At(buf, 3) = atypIPv4 ->
                IF ipv4TooShort(buf) THEN ParseError
                ELSE Target(buf, atypIPv4, Slice(buf, 4, 8), 8)
           [] At(buf, 3) = atypDomain ->
                LET domainLen == At(buf, 4) IN
                IF domainLenTooShort(buf, domainLen) THEN ParseError
                ELSE Target(buf, atypDomain, Slice(buf, 5, 5 + domainLen),
                            5 + domainLen)
           [] At(buf, 3) = atypIPv6 ->
                IF Len(buf) < ipv6Len THEN ParseError
                ELSE Target(buf, atypIPv6, Slice(buf, 4, 20), 20)
           [] OTHER -> ParseError

\* ------------------------------------------------ the target as a string
\* Strings are sequences of ASCII codes.
chDot == 46
chColon == 58
chZero == 48
chLBracket == 91
chRBracket == 93
chLowerA == 97

\* strconv: the decimal digits of n >= 0, as %d prints them.
RECURSIVE Dec(_)
Dec(n) == IF n < 10 THEN <<chZero + n>> ELSE Dec(n \div 10) \o <<chZero + (n % 10)>>

\* The lower-case hexadecimal digits of n >= 0, without leading zeros.
HexDigit(d) == IF d < 10 THEN chZero + d ELSE chLowerA + (d - 10)
RECURSIVE Hex(_)
Hex(n) == IF n < 16 THEN <<HexDigit(n)>> ELSE Hex(n \div 16) \o <<HexDigit(n % 16)>>

\* strings.IndexByte and strings.LastIndexByte, 0-based, -1 when absent.
IndexByte(s, c) ==
    IF \E k \in 1..Len(s) : s[k] = c
    THEN (CHOOSE k \in 1..Len(s) : s[k] = c /\ \A j \in 1..(k - 1) : s[j] # c) - 1
    ELSE 0 - 1
LastIndexByte(s, c) ==
    IF \E k \in 1..Len(s) : s[k] = c
    THEN (CHOOSE k \in 1..Len(s) : s[k] = c /\ \A j \in (k + 1)..Len(s) : s[j] # c) - 1
    ELSE 0 - 1

\* parseTarget, atypIPv4: fmt.Sprintf("%d.%d.%d.%d", buf[4], ..., buf[7])
FormatIPv4(b) ==
    Dec(b[1]) \o <<chDot>> \o Dec(b[2]) \o <<chDot>> \o Dec(b[3]) \o <<chDot>> \o Dec(b[4])

\* net.IP.To4 of a 16-byte address: the last 4 bytes of ::ffff:a.b.c.d.
IsV4Mapped(ip) ==
    /\ \A k \in 1..10 : ip[k] = 0
    /\ ip[11] = 255 /\ ip[12] = 255

\* The eight 16-bit groups of a 16-byte address.
Groups(ip) == [k \in 1..8 |-> ip[2 * k - 1] * 256 + ip[2 * k]]

\* The number of zero groups from group k on.
RECURSIVE ZeroRun(_, _)
ZeroRun(g, k) == IF k > 8 \/ g[k] # 0 THEN 0 ELSE 1 + ZeroRun(g, k + 1)

\* net.IP.String of a 16-byte address: the first longest run of two or more
\* zero groups is written "::", the other groups in hex between colons.
RECURSIVE EmitGroups(_, _, _, _)
EmitGroups(g, k, e0, run) ==
    IF k > 8 THEN <<>>
    ELSE IF k = e0
    THEN <<chColon, chColon>> \o
         (IF e0 + run > 8 THEN <<>>
          ELSE Hex(g[e0 + run]) \o EmitGroups(g, e0 + run + 1, e0, run))
    ELSE (IF k > 1 THEN <<chColon>> ELSE <<>>) \o Hex(g[k])
         \o EmitGroups(g, k + 1, e0, run)
FormatIP16(ip) ==
    IF IsV4Mapped(ip) THEN FormatIPv4(SubSeq(ip, 13, 16))
    ELSE LET g == Groups(ip)
             best == CHOOSE k \in 1..8 :
                        /\ \A j \in 1..8 : ZeroRun(g, j) <= ZeroRun(g, k)
                        /\ \A j \in 1..(k - 1) : ZeroRun(g, j) < ZeroRun(g, k)
         IN IF ZeroRun(g, best) < 2 THEN EmitGroups(g, 1, 0, 0)
            ELSE EmitGroups(g, 1, best, ZeroRun(g, best))

\* parseTarget: the host as it is printed for each address type.
HostString(t) ==
    CASE t.atyp = atypIPv4 -> FormatIPv4(t.host)
      [] t.atyp = atypIPv6 -> FormatIP16(t.host)
      [] OTHER -> t.host

\* parseTarget: fmt.Sprintf("%s:%d", host, port)
TargetAddr(t) == HostString(t) \o <<chColon>> \o Dec(t.port)

\* ------------------------------------------------------------ dialViaSOCKS5
\* net.SplitHostPort: the host before the last colon and the port after it;
\* a host with a colon of its own must stand in brackets.
SplitError == [err |-> TRUE, host |-> <<>>, port |-> <<>>]
SplitHostPort(hostport) ==
    LET n == Len(hostport)
        c == LastIndexByte(hostport, chColon)
        end == IndexByte(hostport, chRBracket)
        bracketed == n > 0 /\ hostport[1] = chLBracket
        host == IF bracketed THEN SubSeq(hostport, 2, end) ELSE SubSeq(hostport, 1, c)
        \* what is searched for a stray '[' and a stray ']'
        afterOpen == IF bracketed THEN SubSeq(hostport, 2, n) ELSE hostport
        afterClose == IF bracketed THEN SubSeq(hostport, end + 2, n) ELSE hostport
    IN  IF c < 0 THEN SplitError
        ELSE IF bracketed /\ (end < 0 \/ end + 1 # c) THEN SplitError
        ELSE IF ~bracketed /\ IndexByte(host, chColon) >= 0 THEN SplitError
        ELSE IF IndexByte(afterOpen, chLBracket) >= 0 THEN SplitError
        ELSE IF IndexByte(afterClose, chRBracket) >= 0 THEN SplitError
        ELSE [err |-> FALSE, host |-> host, port |-> SubSeq(hostport, c + 2, n)]

IsDigit(c) == c >= chZero /\ c <= chZero + 9

\* fmt.Sscanf(portStr, "%d", &port): the leading digits; port stays 0
\* when there are none.
RECURSIVE ScanDec(_, _)
ScanDec(str, acc) ==
    IF str = <<>> \/ ~IsDigit(Head(str)) THEN acc
    ELSE ScanDec(Tail(str), acc * 10 + (Head(str) - chZero))

\* strings.Split(str, c)
RECURSIVE SplitOn(_, _)
SplitOn(str, c) ==
    LET k == IndexByte(str, c) IN
    IF k < 0 THEN <<str>>
    ELSE <<SubSeq(str, 1, k)>> \o SplitOn(SubSeq(str, k + 2, Len(str)), c)

\* One field of a dotted address: 1 to 3 digits, no leading zero, <= 255.
IsDecField(f) ==
    /\ Len(f) >= 1 /\ Len(f) <= 3
    /\ \A k \in 1..Len(f) : IsDigit(f[k])
    /\ (Len(f) > 1 => f[1] # chZero)
    /\ ScanDec(f, 0) <= 255

\* One group of a colon address: 1 to 4 hex digits.
HexValue(c) ==
    IF IsDigit(c) THEN c - chZero
    ELSE IF c >= chLowerA /\ c <= chLowerA + 5 THEN c - chLowerA + 10
    ELSE IF c >= 65 /\ c <= 70 THEN c - 65 + 10
    ELSE 0 - 1
IsHexField(f) ==
    /\ Len(f) >= 1 /\ Len(f) <= 4
    /\ \A k \in 1..Len(f) : HexValue(f[k]) >= 0
RECURSIVE ScanHex(_, _)
ScanHex(str, acc) ==
    IF str = <<>> THEN acc ELSE ScanHex(Tail(str), acc * 16 + HexValue(Head(str)))

NoIP == [kind |-> "none", bytes |-> <<>>]

\* net.ParseIP of a dotted address.
ParseIPv4(host) ==
    LET f == SplitOn(host, chDot) IN
    IF Len(f) = 4 /\ \A k \in 1..4 : IsDecField(f[k])
    THEN [kind |-> "v4", bytes |-> [k \in 1..4 |-> ScanDec(f[k], 0)]]
    ELSE NoIP

\* The bytes of a sequence of 16-bit groups.
GroupBytes(g) ==
    [k \in 1..(2 * Len(g)) |->
        IF k % 2 = 1 THEN g[(k + 1) \div 2] \div 256 ELSE g[k \div 2] % 256]

\* net.ParseIP of a colon address: hex groups, "::" once for a run of zero
\* groups (the forms with a dotted tail or a zone are left out).
ParseIPv6(host) ==
    LET n == Len(host)
        gaps == {k \in 1..(n - 1) : host[k] = chColon /\ host[k + 1] = chColon}
        k0 == CHOOSE k \in gaps : \A j \in gaps : k <= j
        fields(str) == IF str = <<>> THEN <<>> ELSE SplitOn(str, chColon)
        left == IF gaps = {} THEN fields(host) ELSE fields(SubSeq(host, 1, k0 - 1))
        right == IF gaps = {} THEN <<>> ELSE fields(SubSeq(host, k0 + 2, n))
        fill == 8 - Len(left) - Len(right)
        value(f) == ScanHex(f, 0)
    IN  IF /\ \A k \in 1..Len(left) : IsHexField(left[k])
           /\ \A k \in 1..Len(right) : IsHexField(right[k])
           /\ (IF gaps = {} THEN fill = 0 ELSE fill >= 1)
        THEN [kind |-> "v6",
              bytes |-> GroupBytes([k \in 1..Len(left) |-> value(left[k])]
                                   \o [k \in 1..fill |-> 0]
                                   \o [k \in 1..Len(right) |-> value(right[k])])]
        ELSE NoIP

\* net.ParseIP, then ip.To4(): 4 bytes for a dotted address and for
\* ::ffff:a.b.c.d, 16 bytes for another colon address, none for a name.
ParseIP(host) ==
    IF ParseIPv4(host).kind = "v4" THEN ParseIPv4(host)
    ELSE IF IndexByte(host, chColon) < 0 THEN NoIP
    ELSE LET ip == ParseIPv6(host) IN
         IF ip.kind = "v6" /\ IsV4Mapped(ip.bytes)
         THEN [kind |-> "v4", bytes |-> SubSeq(ip.bytes, 13, 16)]
         ELSE ip

\* dialViaSOCKS5: the connect request built for host and port.
ConnectRequest(host, port) ==
    LET ip == ParseIP(host) IN
    <<socks5Version, cmdConnect, 0>>
        \o (CASE ip.kind = "v4" -> <<atypIPv4>> \o ip.bytes
              [] ip.kind = "v6" -> <<atypIPv6>> \o ip.bytes
              [] OTHER -> <<atypDomain, Len(host) % 256>> \o host)
        \o <<(port \div 256) % 256, port % 256>>

\* What the upstream does with a dial: refuse the TCP connection, close
\* before answering the greeting, answer it as something else than SOCKS5,
\* answer the connect request with an error, or serve it.
Upstreams == {"refuse", "eof", "notsocks5", "reject", "accept"}

\* A dial that leaves the socket open when the upstream rejects the request.
DialLeaky(how, addr) ==
    LET hp == SplitHostPort(addr) IN
    [ok |-> how = "accept" /\ ~hp.err,
     opened |-> how # "refuse",
     closed |-> how \in {"eof", "notsocks5"} \/ (how = "accept" /\ hp.err),
     req |-> IF how \in {"reject", "accept"} /\ ~hp.err
             THEN ConnectRequest(hp.host, ScanDec(hp.port, 0)) ELSE <<>>]

\* dialViaSOCKS5 against an upstream and a target address: whether it
\* returned a connection, whether it opened a socket and closed it again,
\* and the connect request it wrote.
Dial(how, addr) ==
    LET hp == SplitHostPort(addr) IN
    IF how = "refuse"
    THEN [ok |-> FALSE, opened |-> FALSE, closed |-> FALSE, req |-> <<>>]
    ELSE IF how \in {"eof", "notsocks5"} \/ hp.err
    THEN [ok |-> FALSE, opened |-> TRUE, closed |-> TRUE, req |-> <<>>]
    ELSE LET req == ConnectRequest(hp.host, ScanDec(hp.port, 0)) IN
         IF how = "reject"
         THEN [ok |-> FALSE, opened |-> TRUE, closed |-> TRUE, req |-> req]
         ELSE [ok |-> TRUE, opened |-> TRUE, closed |-> FALSE, req |-> req]

\* The targets the requests can name, and dialViaSOCKS5 on each of them
\* against each kind of upstream.
Targets == {parseTarget(r.buf) : r \in {q \in Requests : ~q.err}} \ {ParseError}
DialOf == [t \in Targets |-> [how \in Upstreams |-> Dial(how, TargetAddr(t))]]

\* What passes on the client's socket.
Read(kind, r) == [ev |-> "read", kind |-> kind, err |-> r.err, data |-> r.buf]
Write(kind, bytes) == [ev |-> "write", kind |-> kind, err |-> FALSE, data |-> bytes]

\* A reply without the bound address and port.
ReplyBytesShort(status) == <<socks5Version, status, 0, atypIPv4>>

\* sendReply: ver, status, rsv, atyp(ipv4), addr(0.0.0.0), port(0)
ReplyBytes(status) == <<socks5Version, status, 0, atypIPv4, 0, 0, 0, 0, 0, 0>>
sendReply(status) == Write("reply", ReplyBytes(status))

\* A retry loop that asks for the current proxy every time.
SelectOpSticky(n) == "Current"

\* handleConn: attempt 0 asks for the current proxy, the later ones switch.
SelectOp(n) == IF n = 0 THEN "Current" ELSE "SwitchNext"

\* Start: a connection is accepted and handed to a new handleConn.
acceptConn ==
    /\ pc["conn"] \in {"idle", "closed"}
    /\ pc' = [pc EXCEPT !["conn"] = "greeting"]
    /\ io' = <<>>
    /\ target' = NoTarget
    /\ i' = 0
    /\ sel' = <<>>
    /\ dials' = <<>>
    /\ relayed' = 0
    /\ idx0' = 0
    /\ fwd' = <<>>
    /\ clientOpen' = TRUE
    /\ upOpen' = 0
    /\ disturbed' = FALSE
    /\ UNCHANGED <<heap, proxies, current, lockVars, call, statusVars, callerVars>>
    /\ UNCHANGED sideVars

\* handleConn: the greeting is read; a good one is answered "no auth".
readGreeting ==
    /\ pc["conn"] = "greeting"
    /\ \E g \in Greetings :
        IF g.err \/ Len(g.buf) < 2 \/ At(g.buf, 0) # socks5Version
        THEN /\ io' = Append(io, Read("greeting", g))
             /\ pc' = [pc EXCEPT !["conn"] = "closed"]
             /\ clientOpen' = FALSE
        ELSE /\ io' = io \o <<Read("greeting", g), Write("method", <<socks5Version, 0>>)>>
             /\ pc' = [pc EXCEPT !["conn"] = "request"]
             /\ UNCHANGED clientOpen
    /\ UNCHANGED <<heap, proxies, current, lockVars, call, statusVars, callerVars,
                   target, i, sel, dials, relayed, idx0, fwd, upOpen, disturbed>>
    /\ UNCHANGED sideVars

\* handleConn: the request is read and parsed; the retry loop starts.
readRequest ==
    /\ pc["conn"] = "request"
    /\ \E r \in Requests :
        IF r.err \/ Len(r.buf) < minRequest \/ At(r.buf, 1) # cmdConnect
        THEN /\ io' = io \o <<Read("request", r), sendReply(7)>>
             /\ pc' = [pc EXCEPT !["conn"] = "closed"]
             /\ clientOpen' = FALSE
             /\ UNCHANGED <<target, call, idx0>>
        ELSE IF parseTarget(r.buf).err
        THEN /\ io' = io \o <<Read("request", r), sendReply(4)>>
             /\ pc' = [pc EXCEPT !["conn"] = "closed"]
             /\ clientOpen' = FALSE
             /\ UNCHANGED <<target, call, idx0>>
        ELSE /\ io' = Append(io, Read("request", r))
             /\ target' = parseTarget(r.buf)
             /\ idx0' = current
             /\ call' = [call EXCEPT !["conn"] = Enter(SelectOp(0), 0)]
             /\ pc' = [pc EXCEPT !["conn"] = "select"]
             /\ UNCHANGED clientOpen
    /\ UNCHANGED <<heap, proxies, current, lockVars, statusVars, callerVars,
                   i, sel, dials, relayed, fwd, upOpen, disturbed>>
    /\ UNCHANGED sideVars

\* handleConn closing without a reply when the pool has no proxy.
selectedSilent ==
    /\ pc["conn"] = "select"
    /\ call["conn"].st = "unlock"
    /\ Release("conn")
    /\ sel' = Append(sel, [op |-> call["conn"].op, up |-> call["conn"].ret[1],
                           ok |-> call["conn"].ret[2]])
    /\ pc' = [pc EXCEPT !["conn"] = IF call["conn"].ret[2] THEN "dial" ELSE "closed"]
    /\ clientOpen' = call["conn"].ret[2]
    /\ io' = io
    /\ call' = [call EXCEPT !["conn"] = NoCall]
    /\ UNCHANGED <<heap, proxies, current, statusVars, callerVars,
                   target, i, dials, relayed, idx0, fwd, upOpen, disturbed>>
    /\ UNCHANGED sideVars

\* handleConn: the pool answered; without a proxy the client is refused.
selected ==
    /\ pc["conn"] = "select"
    /\ call["conn"].st = "unlock"
    /\ Release("conn")
    /\ sel' = Append(sel, [op |-> call["conn"].op, up |-> call["conn"].ret[1],
                           ok |-> call["conn"].ret[2]])
    /\ IF call["conn"].ret[2]
       THEN /\ pc' = [pc EXCEPT !["conn"] = "dial"]
            /\ io' = io
            /\ UNCHANGED clientOpen
       ELSE /\ pc' = [pc EXCEPT !["conn"] = "closed"]
            /\ io' = Append(io, sendReply(1))
            /\ clientOpen' = FALSE
    /\ call' = [call EXCEPT !["conn"] = NoCall]
    /\ UNCHANGED <<heap, proxies, current, statusVars, callerVars,
                   target, i, dials, relayed, idx0, fwd, upOpen, disturbed>>
    /\ UNCHANGED sideVars

\* handleConn: dialViaSOCKS5 against the selected upstream; on success the
\* client is answered and relay starts, on failure the loop goes on or, after
\* maxRetries attempts, gives up.
dial ==
    /\ pc["conn"] = "dial"
    /\ \E how \in Upstreams :
        LET d == DialOf[target][how] IN
        /\ dials' = Append(dials, [up |-> sel[Len(sel)].up, ok |-> d.ok,
                                   healthy |-> how = "accept"])
        /\ upOpen' = IF d.opened /\ ~d.closed THEN upOpen + 1 ELSE upOpen
        /\ IF d.ok
           THEN /\ io' = Append(io, sendReply(0))
                /\ fwd' = d.req
                /\ pc' = [pc EXCEPT !["conn"] = "relay"]
                /\ UNCHANGED <<i, call, clientOpen>>
           ELSE IF i + 1 < maxRetries
           THEN /\ i' = i + 1
                /\ call' = [call EXCEPT !["conn"] = Enter(SelectOp(i + 1), 0)]
                /\ pc' = [pc EXCEPT !["conn"] = "select"]
                /\ io' = io
                /\ UNCHANGED <<fwd, clientOpen>>
           ELSE /\ i' = i + 1
                /\ io' = Append(io, sendReply(1))
                /\ pc' = [pc EXCEPT !["conn"] = "closed"]
                /\ clientOpen' = FALSE
                /\ UNCHANGED <<call, fwd>>
    /\ UNCHANGED <<heap, proxies, current, lockVars, statusVars, callerVars,
                   target, sel, relayed, idx0, disturbed>>
    /\ UNCHANGED sideVars

\* relay: a chunk from the upstream is copied to the client.
relayCopy ==
    /\ pc["conn"] = "relay"
    /\ relayed < MaxRelay
    /\ relayed' = relayed + 1
    /\ io' = Append(io, Write("relay", <<112, 111, 110, 103>>))
    /\ UNCHANGED <<heap, proxies, current, lockVars, pc, call, statusVars,
                   callerVars, target, i, sel, dials, idx0, fwd, clientOpen,
                   upOpen, disturbed>>
    /\ UNCHANGED sideVars

\* relay returns and its deferred Close of both sockets runs; handleConn
\* returns and its deferred Close runs.
relayDone ==
    /\ pc["conn"] = "relay"
    /\ pc' = [pc EXCEPT !["conn"] = "closed"]
    /\ upOpen' = upOpen - 1
    /\ clientOpen' = FALSE
    /\ UNCHANGED <<heap, proxies, current, lockVars, call, statusVars,
                   callerVars, io, target, i, sel, dials, relayed, idx0, fwd,
                   disturbed>>
    /\ UNCHANGED sideVars

\* ----------------------------------------------------------------- relay
\* The longest byte sequence either side sends through relay.
MaxMsg == 2

\* relay's two directions: "up" is cp(right, left), client to upstream;
\* "down" is cp(left, right), upstream to client.
Dirs == {"up", "down"}

\* What a side sends: the client bytes 1, 2, ..., the upstream 11, 12, ...
Msg(d, n) == [k \in 1..n |-> IF d = "up" THEN k ELSE 10 + k]

\* A direction before anything was sent: `todo` is what its sender will
\* write, `sent` what it wrote, `buf` what waits to be read by cp, `hand`
\* what cp has read and not yet written, `got` what reached the receiver;
\* `eof`: the sender shut down its side; `fin`: cp half-closed the receiver.
NewFlow(msg) ==
    [todo |-> msg, sent |-> <<>>, buf |-> <<>>, hand |-> <<>>, got |-> <<>>,
     eof |-> FALSE, fin |-> FALSE]
NoFlow == [d \in Dirs |-> NewFlow(<<>>)]

\* Both sockets are open: relay has not returned.
Relaying == pc["conn"] = "relay"

\* A side writes the next n bytes of its message to its socket.
Send(d) ==
    /\ Relaying
    /\ ~flow[d].eof
    /\ \E n \in 1..Len(flow[d].todo) :
        flow' = [flow EXCEPT ![d].todo = SubSeq(@, n + 1, Len(@)),
                             ![d].sent = @ \o SubSeq(flow[d].todo, 1, n),
                             ![d].buf = @ \o SubSeq(flow[d].todo, 1, n)]
    /\ UNCHANGED <<poolVars, pc, connVars, cp, done>>
    /\ UNCHANGED <<checkVars, mainVars, setupVars>>

\* A side that has written all it had shuts down its sending side.
SendEOF(d) ==
    /\ Relaying
    /\ flow[d].todo = <<>>
    /\ ~flow[d].eof
    /\ flow' = [flow EXCEPT ![d].eof = TRUE]
    /\ UNCHANGED <<poolVars, pc, connVars, cp, done>>
    /\ UNCHANGED <<checkVars, mainVars, setupVars>>

\* A read that hands out the bytes and leaves them in the buffer.
ReadKeep(b, n) == b

\* src.Read: the buffer after its first n bytes were read.
ReadRest(b, n) == SubSeq(b, n + 1, Len(b))

\* io.Copy: src.Read returns the next n bytes.
CopyRead(d) ==
    /\ Relaying
    /\ cp[d] = "copy"
    /\ flow[d].hand = <<>>
    /\ \E n \in 1..Len(flow[d].buf) :
        flow' = [flow EXCEPT ![d].hand = SubSeq(flow[d].buf, 1, n),
                             ![d].buf = ReadRest(@, n)]
    /\ UNCHANGED <<poolVars, pc, connVars, cp, done>>
    /\ UNCHANGED <<checkVars, mainVars, setupVars>>

\* io.Copy: dst.Write of what was read.
CopyWrite(d) ==
    /\ Relaying
    /\ cp[d] = "copy"
    /\ flow[d].hand # <<>>
    /\ flow' = [flow EXCEPT ![d].got = @ \o flow[d].hand, ![d].hand = <<>>]
    /\ UNCHANGED <<poolVars, pc, connVars, cp, done>>
    /\ UNCHANGED <<checkVars, mainVars, setupVars>>

\* io.Copy: src.Read returns EOF; cp half-closes dst and reports on `done`.
CopyEOF(d) ==
    /\ Relaying
    /\ cp[d] = "copy"
    /\ flow[d].hand = <<>> /\ flow[d].buf = <<>> /\ flow[d].eof
    /\ flow' = [flow EXCEPT ![d].fin = TRUE]
    /\ cp' = [cp EXCEPT ![d] = "eof"]
    /\ done' = done + 1
    /\ UNCHANGED <<poolVars, pc, connVars>>
    /\ UNCHANGED <<checkVars, mainVars, setupVars>>

\* io.Copy: a Read or Write fails, because the peer reset the connection
\* or because relay has returned and closed the sockets; what cp held is
\* dropped, and cp reports on `done`.
CopyError(d) ==
    /\ pc["conn"] \in {"relay", "closed"}
    /\ cp[d] = "copy"
    /\ flow' = [flow EXCEPT ![d].hand = <<>>]
    /\ cp' = [cp EXCEPT ![d] = "err"]
    /\ done' = done + 1
    /\ UNCHANGED <<poolVars, pc, connVars>>
    /\ UNCHANGED <<checkVars, mainVars, setupVars>>

\* relay: <-done; its deferred Close of both sockets runs, and handleConn
\* returns.
relayReturn ==
    /\ Relaying
    /\ done > 0
    /\ done' = done - 1
    /\ pc' = [pc EXCEPT !["conn"] = "closed"]
    /\ upOpen' = upOpen - 1
    /\ clientOpen' = FALSE
    /\ UNCHANGED <<poolVars, io, target, i, sel, dials, relayed, idx0, fwd,
                   flow, cp>>
    /\ UNCHANGED <<checkVars, mainVars, setupVars>>

\* ------------------------------------------------------------ CheckProxies
\* The most candidates handed to CheckProxies, and the largest maxConcurrent.
MaxCand == 2
MaxConc == 2

\* Text is a sequence of ASCII codes.
\* "Unknown"
Unknown == <<85, 110, 107, 110, 111, 119, 110>>
\* blockedCountries: "china", "hong kong"
blockedCountries ==
    {<<99, 104, 105, 110, 97>>, <<104, 111, 110, 103, 32, 107, 111, 110, 103>>}

\* strings.ToLower
ToLower(str) == [k \in 1..Len(str) |-> IF str[k] >= 65 /\ str[k] <= 90 THEN str[k] + 32 ELSE str[k]]

\* strings.TrimSpace: without the leading and trailing \t \n \v \f \r ' '.
IsSpace(c) == c \in {9, 10, 11, 12, 13, 32}
RECURSIVE TrimLeft(_)
TrimLeft(str) == IF str # <<>> /\ IsSpace(Head(str)) THEN TrimLeft(Tail(str)) ELSE str
RECURSIVE TrimRight(_)
TrimRight(str) ==
    IF str # <<>> /\ IsSpace(str[Len(str)])
    THEN TrimRight(SubSeq(str, 1, Len(str) - 1)) ELSE str
TrimSpace(str) == TrimRight(TrimLeft(str))

\* What ip-api.com does with a lookup: the connection fails; the read fails
\* or returns nothing; or a response arrives: "H" for the header, then
\* \r\n\r\n, then the body.
GeoHeader == <<72, 13, 10, 13, 10>>
GeoResponses ==
    {[name |-> "dial error", dialErr |-> TRUE, readErr |-> FALSE, bytes |-> <<>>],
     [name |-> "read error", dialErr |-> FALSE, readErr |-> TRUE, bytes |-> <<>>],
     [name |-> "nothing read", dialErr |-> FALSE, readErr |-> FALSE, bytes |-> <<>>],
     \* Japan,Tokyo\n
     [name |-> "Japan", dialErr |-> FALSE, readErr |-> FALSE,
      bytes |-> GeoHeader \o <<74, 97, 112, 97, 110, 44, 84, 111, 107, 121, 111, 10>>],
     \* China,Beijing\n
     [name |-> "China", dialErr |-> FALSE, readErr |-> FALSE,
      bytes |-> GeoHeader \o <<67, 104, 105, 110, 97, 44, 66, 101, 105, 106, 105, 110, 103, 10>>],
     \* " HONG KONG \n", without a city
     [name |-> "Hong Kong", dialErr |-> FALSE, readErr |-> FALSE,
      bytes |-> GeoHeader \o <<32, 72, 79, 78, 71, 32, 75, 79, 78, 71, 32, 10>>]}

\* The first index at which the 4 bytes \r\n\r\n start, 0-based, or -1.
HeaderEnd(body) ==
    LET at == {k \in 0..(Len(body) - 4) : SubSeq(body, k + 1, k + 4) = <<13, 10, 13, 10>>}
    IN  IF at = {} THEN 0 - 1 ELSE CHOOSE k \in at : \A j \in at : k <= j

\* LookupGeo: (country, city) from the response.
LookupGeo(r) ==
    IF r.dialErr THEN <<Unknown, <<>>>>
    ELSE IF r.readErr \/ Len(r.bytes) = 0 THEN <<Unknown, <<>>>>
    ELSE LET h == HeaderEnd(r.bytes)
             body == IF h < 0 THEN r.bytes ELSE SubSeq(r.bytes, h + 5, Len(r.bytes))
             comma == IndexByte(body, 44)
         IN  IF comma < 0 THEN <<body, <<>>>>
             ELSE <<SubSeq(body, 1, comma), SubSeq(body, comma + 2, Len(body))>>

\* A filter that compares the country as it came.
BlockedAsIs(country) == country \in blockedCountries

\* CheckProxies: blockedCountries[strings.ToLower(px.Country)]
Blocked(country) == ToLower(country) \in blockedCountries

\* What a candidate does with the probe: refuse the connection, answer the
\* greeting as SOCKS4, reject the CONNECT, answer the HTTP request with too
\* little, or serve it ("HTTP/1.1 204").
ProbeReplies ==
    {[name |-> "refuse", dialErr |-> TRUE, greeting |-> <<>>, reply |-> <<>>, http |-> <<>>],
     [name |-> "socks4", dialErr |-> FALSE, greeting |-> <<4, 0>>, reply |-> <<>>, http |-> <<>>],
     [name |-> "reject", dialErr |-> FALSE, greeting |-> <<5, 0>>, reply |-> <<5, 1>>, http |-> <<>>],
     [name |-> "short", dialErr |-> FALSE, greeting |-> <<5, 0>>, reply |-> <<5, 0>>,
      http |-> <<72, 84, 84, 80, 47, 49, 46, 49>>],
     [name |-> "serve", dialErr |-> FALSE, greeting |-> <<5, 0>>, reply |-> <<5, 0>>,
      http |-> <<72, 84, 84, 80, 47, 49, 46, 49, 32, 50, 48, 52>>]}

\* A probe that is content with the SOCKS5 reply.
checkGoogleNoHTTP(p) ==
    /\ ~p.dialErr
    /\ Len(p.greeting) = 2 /\ p.greeting[1] = 5
    /\ Len(p.reply) >= 2 /\ p.reply[2] = 0

\* checkGoogle: greeting, CONNECT www.google.com:80, GET /generate_204.
checkGoogle(p) ==
    /\ ~p.dialErr
    /\ Len(p.greeting) = 2 /\ p.greeting[1] = 5
    /\ Len(p.reply) >= 2 /\ p.reply[2] = 0
    /\ Len(p.http) >= 12
    /\ SubSeq(p.http, 1, 4) = <<72, 84, 84, 80>>

NoGor == [st |-> "none", country |-> <<>>, city |-> <<>>, geo |-> "", served |-> FALSE]

\* A semaphore that lets every goroutine start.
SemFreeAlways(n, cap) == TRUE

\* sem <- struct{}{} goes through while the channel has room.
SemFree(n, cap) == n < cap

\* CheckProxies' var block: make(chan struct{}, maxConcurrent) panics on a
\* negative size.
makeSem ==
    /\ ckPc = "start"
    /\ ckPc' = IF maxConcurrent < 0 THEN "panic" ELSE "loop"
    /\ UNCHANGED <<maxConcurrent, candidates, spawned, sem, wg, gor, aliveMu,
                   alive, probed>>
    /\ UNCHANGED <<poolVars, pc, connVars, relayVars, mainVars, setupVars>>

\* CheckProxies' loop: wg.Add(1), sem <- struct{}{}, go func(px) for the
\* next candidate.
spawn ==
    /\ ckPc = "loop"
    /\ spawned < candidates
    /\ SemFree(sem, maxConcurrent)
    /\ wg' = wg + 1
    /\ sem' = sem + 1
    /\ spawned' = spawned + 1
    /\ gor' = [gor EXCEPT ![spawned + 1].st = "geo"]
    /\ UNCHANGED <<maxConcurrent, candidates, aliveMu, alive, probed, ckPc>>
    /\ UNCHANGED <<poolVars, pc, connVars, relayVars, mainVars, setupVars>>

\* CheckProxies' loop is over: wg.Wait().
waitAll ==
    /\ ckPc = "loop"
    /\ spawned = candidates
    /\ ckPc' = "wait"
    /\ UNCHANGED <<maxConcurrent, candidates, spawned, sem, wg, gor, aliveMu,
                   alive, probed>>
    /\ UNCHANGED <<poolVars, pc, connVars, relayVars, mainVars, setupVars>>

\* wg.Wait() returns, and CheckProxies returns alive.
checkReturn ==
    /\ ckPc = "wait"
    /\ wg = 0
    /\ ckPc' = "returned"
    /\ UNCHANGED <<maxConcurrent, candidates, spawned, sem, wg, gor, aliveMu,
                   alive, probed>>
    /\ UNCHANGED <<poolVars, pc, connVars, relayVars, mainVars, setupVars>>

\* The goroutine: LookupGeo, the trimmed country and city, and the filter.
geoLookup(k) ==
    /\ gor[k].st = "geo"
    /\ \E r \in GeoResponses :
        LET country == TrimSpace(LookupGeo(r)[1])
            city == TrimSpace(LookupGeo(r)[2])
        IN  gor' = [gor EXCEPT ![k].country = country, ![k].city = city,
                               ![k].geo = r.name,
                               ![k].st = IF Blocked(country) THEN "release" ELSE "probe"]
    /\ UNCHANGED <<maxConcurrent, candidates, spawned, sem, wg, aliveMu, alive,
                   probed, ckPc>>
    /\ UNCHANGED <<poolVars, pc, connVars, relayVars, mainVars, setupVars>>

\* The goroutine: checkGoogle(px, timeout).
probe(k) ==
    /\ gor[k].st = "probe"
    /\ probed' = probed \cup {k}
    /\ \E p \in ProbeReplies :
        gor' = [gor EXCEPT ![k].served = (p.name = "serve"),
                           ![k].st = IF checkGoogle(p) THEN "lock" ELSE "release"]
    /\ UNCHANGED <<maxConcurrent, candidates, spawned, sem, wg, aliveMu, alive, ckPc>>
    /\ UNCHANGED <<poolVars, pc, connVars, relayVars, mainVars, setupVars>>

\* The goroutine: mu.Lock()
lockAlive(k) ==
    /\ gor[k].st = "lock"
    /\ aliveMu = 0
    /\ aliveMu' = k
    /\ gor' = [gor EXCEPT ![k].st = "append"]
    /\ UNCHANGED <<maxConcurrent, candidates, spawned, sem, wg, alive, probed, ckPc>>
    /\ UNCHANGED <<poolVars, pc, connVars, relayVars, mainVars, setupVars>>

\* The goroutine: alive = append(alive, px); mu.Unlock()
appendAlive(k) ==
    /\ gor[k].st = "append"
    /\ alive' = Append(alive, [px |-> k, country |-> gor[k].country, city |-> gor[k].city])
    /\ aliveMu' = 0
    /\ gor' = [gor EXCEPT ![k].st = "release"]
    /\ UNCHANGED <<maxConcurrent, candidates, spawned, sem, wg, probed, ckPc>>
    /\ UNCHANGED <<poolVars, pc, connVars, relayVars, mainVars, setupVars>>

\* The goroutine returns: the deferred <-sem runs.
releaseSem(k) ==
    /\ gor[k].st = "release"
    /\ sem' = sem - 1
    /\ gor' = [gor EXCEPT ![k].st = "done"]
    /\ UNCHANGED <<maxConcurrent, candidates, spawned, wg, aliveMu, alive, probed, ckPc>>
    /\ UNCHANGED <<poolVars, pc, connVars, relayVars, mainVars, setupVars>>

\* The goroutine returns: the deferred wg.Done() runs.
wgDone(k) ==
    /\ gor[k].st = "done"
    /\ wg' = wg - 1
    /\ gor' = [gor EXCEPT ![k].st = "exit"]
    /\ UNCHANGED <<maxConcurrent, candidates, spawned, sem, aliveMu, alive, probed, ckPc>>
    /\ UNCHANGED <<poolVars, pc, connVars, relayVars, mainVars, setupVars>>

\* ---------------------------------------------------------------- main
\* The buffer of refreshChan: make(chan struct{}, 1).
refreshChanCap == 1
\* cfg.ScrapeInterval, in minutes.
ScrapeInterval == 30
\* The minutes the clock runs, and the TriggerRefresh calls counted while
\* one cycle runs.
MaxNow == 2
MaxTrig == 2

\* A refresh cycle: what started it, whether Scrape failed, whether
\* CheckProxies ran, and the pool and the scrape times as it found them.
NoCycle == [kind |-> "none", err |-> FALSE, checked |-> FALSE,
            pre |-> <<<<>>, 0, 0, 0>>]
NewCycle(kind) ==
    [kind |-> kind, err |-> FALSE, checked |-> FALSE,
     pre |-> <<PoolSeq, current, lastScrapeTime, nextScrapeTime>>]

\* time.Now() moves on.
timePasses ==
    /\ now < MaxNow
    /\ now' = now + 1
    /\ UNCHANGED <<refreshChan, lastScrapeTime, nextScrapeTime, booted, cyc, trigs,
                   coalesced, sinceTrigger>>
    /\ UNCHANGED <<poolVars, pc, connVars, relayVars, checkVars, setupVars>>
    /\ UNCHANGED inRefresh

\* main: the initial refreshPool(cfg, pool), before any goroutine starts.
mainStart ==
    /\ ~booted
    /\ pc["main"] = "idle"
    /\ cyc.kind = "none"
    /\ pc' = [pc EXCEPT !["main"] = "scrape"]
    /\ cyc' = NewCycle("initial")
    /\ inRefresh' = inRefresh \cup {"main"}
    /\ UNCHANGED <<refreshChan, lastScrapeTime, nextScrapeTime, now, booted, trigs,
                   coalesced, sinceTrigger>>
    /\ UNCHANGED <<poolVars, connVars, relayVars, checkVars, setupVars>>

\* The refresh loop's goroutine started before the initial refreshPool.
LoopRunsAtOnce(b) == TRUE

\* The refresh loop's goroutine is started by main once the initial
\* refreshPool has returned.
LoopRuns(b) == b

\* The threads that call refreshPool: main and the refresh loop.
Refreshers == {"main", "refresh"}

\* The refresh loop: case <-ticker.C
loopTick ==
    /\ LoopRuns(booted)
    /\ pc["refresh"] = "idle"
    /\ pc' = [pc EXCEPT !["refresh"] = "scrape"]
    /\ cyc' = NewCycle("tick")
    /\ trigs' = 0
    /\ UNCHANGED <<refreshChan, lastScrapeTime, nextScrapeTime, now, booted,
                   coalesced, sinceTrigger>>
    /\ UNCHANGED <<poolVars, connVars, relayVars, checkVars, setupVars>>
    /\ inRefresh' = inRefresh \cup {"refresh"}

\* The refresh loop: case <-refreshChan
loopManual ==
    /\ LoopRuns(booted)
    /\ pc["refresh"] = "idle"
    /\ refreshChan > 0
    /\ refreshChan' = refreshChan - 1
    /\ pc' = [pc EXCEPT !["refresh"] = "scrape"]
    /\ cyc' = NewCycle("manual")
    /\ coalesced' = trigs
    /\ trigs' = 0
    /\ sinceTrigger' = sinceTrigger + 1
    /\ UNCHANGED <<lastScrapeTime, nextScrapeTime, now, booted>>
    /\ UNCHANGED <<poolVars, connVars, relayVars, checkVars, setupVars>>
    /\ inRefresh' = inRefresh \cup {"refresh"}

\* What Scrape returns: an error, or a list of candidates.
ScrapeResults == {[err |-> TRUE], [err |-> FALSE]}

\* A refreshPool that goes on after a failed Scrape.
ScrapeFailedIgnored(res) == FALSE

\* refreshPool: if err != nil
ScrapeFailed(res) == res.err

\* refreshPool: Scrape; on an error the cycle is over.
refreshScrape(t) ==
    /\ pc[t] = "scrape"
    /\ \E res \in ScrapeResults :
        /\ cyc' = [cyc EXCEPT !.err = res.err]
        /\ IF ScrapeFailed(res)
           THEN /\ pc' = [pc EXCEPT ![t] = "idle"]
                /\ booted' = TRUE
                /\ inRefresh' = inRefresh \ {t}
           ELSE /\ pc' = [pc EXCEPT ![t] = "check"]
                /\ UNCHANGED <<booted, inRefresh>>
    /\ UNCHANGED <<refreshChan, lastScrapeTime, nextScrapeTime, now, trigs,
                   coalesced, sinceTrigger>>
    /\ UNCHANGED <<poolVars, connVars, relayVars, checkVars, setupVars>>

\* refreshPool: CheckProxies returns alive, and pool.Update(alive) is called.
refreshCheck(t) ==
    /\ pc[t] = "check"
    /\ FreeAddrs # {}
    /\ \E l \in Lists :
        LET a == IF l = <<>> THEN Nil ELSE NewAddr IN
        /\ heap' = IF a = Nil THEN heap ELSE [heap EXCEPT ![a] = l]
        /\ call' = [call EXCEPT ![t] = Enter("Update", a)]
    /\ pc' = [pc EXCEPT ![t] = "update"]
    /\ cyc' = [cyc EXCEPT !.checked = TRUE]
    /\ UNCHANGED <<proxies, current, lockVars, statusVars, callerVars, connVars,
                   disturbed>>
    /\ UNCHANGED <<refreshChan, lastScrapeTime, nextScrapeTime, now, booted, trigs,
                   coalesced, sinceTrigger>>
    /\ UNCHANGED <<relayVars, checkVars, setupVars>>
    /\ UNCHANGED inRefresh

\* refreshPool: Update returned; under scrapeMu, lastScrapeTime = time.Now()
\* and nextScrapeTime = lastScrapeTime.Add(cfg.ScrapeInterval); the cycle
\* is over.
refreshTimes(t) ==
    /\ pc[t] = "update"
    /\ Returning(t, "Update")
    /\ Release(t)
    /\ call' = [call EXCEPT ![t] = NoCall]
    /\ lastScrapeTime' = now
    /\ nextScrapeTime' = now + ScrapeInterval
    /\ pc' = [pc EXCEPT ![t] = "idle"]
    /\ booted' = TRUE
    /\ UNCHANGED <<heap, proxies, current, statusVars, callerVars, connVars,
                   disturbed>>
    /\ UNCHANGED <<refreshChan, now, cyc, trigs, coalesced, sinceTrigger>>
    /\ UNCHANGED <<relayVars, checkVars, setupVars>>
    /\ inRefresh' = inRefresh \ {t}

\* handleRefresh calls TriggerRefresh.
triggerCall ==
    /\ booted
    /\ pc["trigger"] = "idle"
    /\ inRefresh = {} \/ trigs < MaxTrig
    /\ pc' = [pc EXCEPT !["trigger"] = "select"]
    /\ UNCHANGED <<poolVars, connVars, relayVars, checkVars, mainVars, setupVars>>

\* A channel with room for one signal more.
ChanHasRoomForTwo(n) == n < refreshChanCap + 1

\* A send on refreshChan can proceed.
ChanHasRoom(n) == n < refreshChanCap

\* TriggerRefresh: select { case refreshChan <- struct{}{}: default: }
triggerSelect ==
    /\ pc["trigger"] = "select"
    /\ refreshChan' = IF ChanHasRoom(refreshChan) THEN refreshChan + 1 ELSE refreshChan
    /\ trigs' = IF inRefresh # {} THEN trigs + 1 ELSE trigs
    /\ sinceTrigger' = 0
    /\ pc' = [pc EXCEPT !["trigger"] = "idle"]
    /\ UNCHANGED <<lastScrapeTime, nextScrapeTime, now, booted, cyc, coalesced>>
    /\ UNCHANGED <<poolVars, connVars, relayVars, checkVars, setupVars>>
    /\ UNCHANGED inRefresh

\* The rotation loop: the sleep is over; pool.Size() is called.
rotateWake ==
    /\ pc["rotate"] = "idle"
    /\ call' = [call EXCEPT !["rotate"] = Enter("Size", 0)]
    /\ pc' = [pc EXCEPT !["rotate"] = "size"]
    /\ UNCHANGED <<heap, proxies, current, lockVars, statusVars, callerVars,
                   connVars, disturbed>>
    /\ UNCHANGED sideVars

\* The rotation loop: if pool.Size() > 1 { pool.SwitchNext() }
rotateSized ==
    /\ pc["rotate"] = "size"
    /\ Returning("rotate", "Size")
    /\ Release("rotate")
    /\ IF call["rotate"].ret[1] > 1
       THEN /\ call' = [call EXCEPT !["rotate"] = Enter("SwitchNext", 0)]
            /\ pc' = [pc EXCEPT !["rotate"] = "switch"]
       ELSE /\ call' = [call EXCEPT !["rotate"] = NoCall]
            /\ pc' = [pc EXCEPT !["rotate"] = "idle"]
    /\ UNCHANGED <<heap, proxies, current, statusVars, callerVars, connVars,
                   disturbed>>
    /\ UNCHANGED sideVars

\* The rotation loop: SwitchNext returned; the loop sleeps again.
rotateDone ==
    /\ pc["rotate"] = "switch"
    /\ Returning("rotate", "SwitchNext")
    /\ Release("rotate")
    /\ call' = [call EXCEPT !["rotate"] = NoCall]
    /\ pc' = [pc EXCEPT !["rotate"] = "idle"]
    /\ UNCHANGED <<heap, proxies, current, statusVars, callerVars, connVars,
                   disturbed>>
    /\ UNCHANGED sideVars

\* ------------------------------------------- the setup's blocking operations
Peers == {"client", "upstream"}
SetupPhases == {"greeting", "request", "dial", "upstream greeting", "upstream reply"}

\* handleConn reads from conn as accept returned it: no deadline is set on
\* the client's socket.
ClientDeadline == FALSE

\* A read returns when the peer sends, closes or fails, or when the
\* socket's deadline passes; otherwise it waits.
ReadReturns(peer, deadline) == peer \notin silent \/ deadline

\* What a read that returns can give: an error alone from a silent peer
\* (the deadline passed), else an error or bytes the code accepts or rejects.
ReadOutcomes(peer) ==
    IF peer \in silent THEN {"error"} ELSE {"error", "bad", "good"}

Op(name, deadline) == [op |-> name, deadline |-> deadline]

\* Serve: go s.handleConn(conn)
connAccepted ==
    /\ phase = "idle"
    /\ phase' = "greeting"
    /\ UNCHANGED <<ops, silent, upDeadline, tries>>
    /\ UNCHANGED <<poolVars, pc, connVars, relayVars, checkVars, mainVars>>

\* A peer stops sending while the connection is being set up.
peerStops(p) ==
    /\ phase \in SetupPhases
    /\ p \notin silent
    /\ silent' = silent \cup {p}
    /\ UNCHANGED <<phase, ops, upDeadline, tries>>
    /\ UNCHANGED <<poolVars, pc, connVars, relayVars, checkVars, mainVars>>

\* handleConn: conn.Read of the greeting.
greetingRead ==
    /\ phase = "greeting"
    /\ ReadReturns("client", ClientDeadline)
    /\ \E r \in ReadOutcomes("client") :
        phase' = IF r = "good" THEN "request" ELSE "closed"
    /\ ops' = Append(ops, Op("greeting", ClientDeadline))
    /\ UNCHANGED <<silent, upDeadline, tries>>
    /\ UNCHANGED <<poolVars, pc, connVars, relayVars, checkVars, mainVars>>

\* handleConn: conn.Read of the connect request.
requestRead ==
    /\ phase = "request"
    /\ ReadReturns("client", ClientDeadline)
    /\ \E r \in ReadOutcomes("client") :
        phase' = IF r = "good" THEN "dial" ELSE "closed"
    /\ ops' = Append(ops, Op("request", ClientDeadline))
    /\ UNCHANGED <<silent, upDeadline, tries>>
    /\ UNCHANGED <<poolVars, pc, connVars, relayVars, checkVars, mainVars>>

\* handleConn's loop after a failed dialViaSOCKS5: the next upstream, or
\* the failure reply after maxRetries attempts.
AfterFailure(n) == IF n + 1 < maxRetries THEN "dial" ELSE "closed"

\* dialViaSOCKS5: net.DialTimeout returns a socket or an error within the
\* timeout; conn.SetDeadline(time.Now().Add(timeout)) on the socket.
upstreamDial ==
    /\ phase = "dial"
    /\ \E connected \in BOOLEAN :
        IF connected
        THEN /\ phase' = "upstream greeting"
             /\ upDeadline' = "set"
             /\ UNCHANGED tries
        ELSE /\ phase' = AfterFailure(tries)
             /\ tries' = tries + 1
             /\ UNCHANGED upDeadline
    /\ ops' = Append(ops, Op("dial", TRUE))
    /\ UNCHANGED silent
    /\ UNCHANGED <<poolVars, pc, connVars, relayVars, checkVars, mainVars>>

\* dialViaSOCKS5: the greeting is written and the two bytes of the answer
\* read; an error, an answer that is not SOCKS5 or an unusable target
\* closes the socket.
upstreamGreeting ==
    /\ phase = "upstream greeting"
    /\ ReadReturns("upstream", upDeadline = "set")
    /\ \E r \in ReadOutcomes("upstream") :
        IF r = "good"
        THEN /\ phase' = "upstream reply"
             /\ UNCHANGED <<upDeadline, tries>>
        ELSE /\ phase' = AfterFailure(tries)
             /\ tries' = tries + 1
             /\ upDeadline' = "none"
    /\ ops' = Append(ops, Op("upstream greeting", upDeadline = "set"))
    /\ UNCHANGED silent
    /\ UNCHANGED <<poolVars, pc, connVars, relayVars, checkVars, mainVars>>

\* dialViaSOCKS5: the request is written and the reply read; on success
\* conn.SetDeadline(time.Time{}) clears the deadline and relay starts.
upstreamReply ==
    /\ phase = "upstream reply"
    /\ ReadReturns("upstream", upDeadline = "set")
    /\ \E r \in ReadOutcomes("upstream") :
        IF r = "good"
        THEN /\ phase' = "relay"
             /\ upDeadline' = "cleared"
             /\ UNCHANGED tries
        ELSE /\ phase' = AfterFailure(tries)
             /\ tries' = tries + 1
             /\ upDeadline' = "none"
    /\ ops' = Append(ops, Op("upstream reply", upDeadline = "set"))
    /\ UNCHANGED silent
    /\ UNCHANGED <<poolVars, pc, connVars, relayVars, checkVars, mainVars>>

\* ------------------------------------------------------------ specifications
Init ==
    /\ heap = [a \in Addrs |-> <<>>]
    /\ proxies = Nil
    /\ current = 0
    /\ muW = NoThread
    /\ muR = {}
    /\ pc = [t \in Threads |-> "idle"]
    /\ call = [t \in Threads |-> NoCall]
    /\ snap = Nil
    /\ activeIdx = 0
    /\ held = Nil
    /\ writes = 0
    /\ io = <<>>
    /\ target = NoTarget
    /\ i = 0
    /\ sel = <<>>
    /\ dials = <<>>
    /\ relayed = 0
    /\ idx0 = 0
    /\ fwd = <<>>
    /\ clientOpen = FALSE
    /\ upOpen = 0
    /\ disturbed = FALSE
    /\ flow = NoFlow
    /\ cp = [d \in Dirs |-> "copy"]
    /\ done = 0
    /\ maxConcurrent = 1
    /\ candidates = 0
    /\ spawned = 0
    /\ sem = 0
    /\ wg = 0
    /\ gor = [k \in 1..MaxCand |-> NoGor]
    /\ aliveMu = 0
    /\ alive = <<>>
    /\ probed = {}
    /\ ckPc = "idle"
    /\ refreshChan = 0
    /\ lastScrapeTime = 0
    /\ nextScrapeTime = 0
    /\ now = 1
    /\ booted = FALSE
    /\ cyc = NoCycle
    /\ trigs = 0
    /\ coalesced = 0
    /\ sinceTrigger = 0
    /\ inRefresh = {}
    /\ phase = "idle"
    /\ ops = <<>>
    /\ silent = {}
    /\ upDeadline = "none"
    /\ tries = 0

\* The pool under its writers: the refresh cycle and the switch endpoint.
Next ==
    \/ refreshPoolUpdate \/ refreshPoolDone
    \/ handleSwitchTo \/ handleSwitchNext \/ handleSwitchDone
    \/ \E t \in {"refresh", "switch"} :
        \/ Lock(t)
        \/ UpdateSetProxies(t) \/ UpdateSetCurrent(t)
        \/ SwitchNextBody(t) \/ SwitchToBody(t)

Spec == Init /\ [][Next]_vars

\* The status surface reading the pool while the refresh cycle and the switch
\* endpoint write it.
NextStatus ==
    \/ refreshPoolUpdate \/ refreshPoolDone
    \/ handleSwitchNext \/ handleSwitchDone
    \/ getStatusAll \/ getStatusIndex \/ getStatusCurrent \/ getStatusReturn
    \/ \E t \in {"refresh", "switch", "status"} :
        \/ Lock(t) \/ RLock(t)
        \/ UpdateSetProxies(t) \/ UpdateSetCurrent(t)
        \/ SwitchNextBody(t)
        \/ CurrentBody(t) \/ CurrentIndexBody(t) \/ AllBody(t)

SpecStatus == Init /\ [][NextStatus]_vars

\* A caller of All() beside the pool's writers.
NextSnapshot ==
    \/ refreshPoolUpdate \/ refreshPoolDone
    \/ handleSwitchNext \/ handleSwitchDone
    \/ callerAll \/ callerHolds \/ callerMutates \/ callerDrops
    \/ \E t \in {"refresh", "switch", "caller"} :
        \/ Lock(t) \/ RLock(t)
        \/ UpdateSetProxies(t) \/ UpdateSetCurrent(t)
        \/ SwitchNextBody(t)
        \/ AllBody(t)

SpecSnapshot == Init /\ [][NextSnapshot]_vars

\* One client connection after another, beside the refresh cycle.
NextConn ==
    \/ refreshPoolUpdate \/ refreshPoolDone
    \/ acceptConn \/ readGreeting \/ readRequest \/ selected \/ dial
    \/ relayCopy \/ relayDone
    \/ \E t \in {"refresh", "conn"} :
        \/ Lock(t) \/ RLock(t)
        \/ UpdateSetProxies(t) \/ UpdateSetCurrent(t)
        \/ SwitchNextBody(t)
        \/ CurrentBody(t)

SpecConn == Init /\ [][NextConn]_vars

\* relay as handleConn enters it after a successful dial: both sockets are
\* open, both cp goroutines start, and each side has a message to send.
InitRelay ==
    /\ heap = [a \in Addrs |-> <<>>]
    /\ proxies = Nil
    /\ current = 0
    /\ muW = NoThread
    /\ muR = {}
    /\ pc = [t \in Threads |-> IF t = "conn" THEN "relay" ELSE "idle"]
    /\ call = [t \in Threads |-> NoCall]
    /\ snap = Nil
    /\ activeIdx = 0
    /\ held = Nil
    /\ writes = 0
    /\ io = <<>>
    /\ target = NoTarget
    /\ i = 0
    /\ sel = <<>>
    /\ dials = <<>>
    /\ relayed = 0
    /\ idx0 = 0
    /\ fwd = <<>>
    /\ clientOpen = TRUE
    /\ upOpen = 1
    /\ disturbed = FALSE
    /\ \E m \in 0..MaxMsg, n \in 0..MaxMsg :
        flow = [d \in Dirs |-> NewFlow(Msg(d, IF d = "up" THEN m ELSE n))]
    /\ cp = [d \in Dirs |-> "copy"]
    /\ done = 0
    /\ maxConcurrent = 1
    /\ candidates = 0
    /\ spawned = 0
    /\ sem = 0
    /\ wg = 0
    /\ gor = [k \in 1..MaxCand |-> NoGor]
    /\ aliveMu = 0
    /\ alive = <<>>
    /\ probed = {}
    /\ ckPc = "idle"
    /\ refreshChan = 0
    /\ lastScrapeTime = 0
    /\ nextScrapeTime = 0
    /\ now = 1
    /\ booted = FALSE
    /\ cyc = NoCycle
    /\ trigs = 0
    /\ coalesced = 0
    /\ sinceTrigger = 0
    /\ inRefresh = {}
    /\ phase = "idle"
    /\ ops = <<>>
    /\ silent = {}
    /\ upDeadline = "none"
    /\ tries = 0

NextRelay ==
    \/ relayReturn
    \/ \E d \in Dirs :
        \/ Send(d) \/ SendEOF(d)
        \/ CopyRead(d) \/ CopyWrite(d) \/ CopyEOF(d) \/ CopyError(d)

SpecRelay == InitRelay /\ [][NextRelay]_vars

\* main's refresh cycles: the initial one, then the loop on the ticker and
\* on refreshChan, beside the control surface's TriggerRefresh.
NextRefresh ==
    \/ timePasses
    \/ mainStart \/ loopTick \/ loopManual
    \/ triggerCall \/ triggerSelect
    \/ \E t \in Refreshers :
        \/ refreshScrape(t) \/ refreshCheck(t) \/ refreshTimes(t)
        \/ Lock(t) \/ UpdateSetProxies(t) \/ UpdateSetCurrent(t)

SpecRefresh == Init /\ [][NextRefresh]_vars

\* The rotation loop beside the refresh cycle's Update.
NextRotate ==
    \/ refreshPoolUpdate \/ refreshPoolDone
    \/ rotateWake \/ rotateSized \/ rotateDone
    \/ \E t \in {"refresh", "rotate"} :
        \/ Lock(t) \/ RLock(t)
        \/ UpdateSetProxies(t) \/ UpdateSetCurrent(t)
        \/ SizeBody(t) \/ SwitchNextBody(t)

SpecRotate == Init /\ [][NextRotate]_vars

\* One connection's setup against peers that may stop sending; every
\* operation that can return does.
NextSetup ==
    \/ connAccepted
    \/ \E p \in Peers : peerStops(p)
    \/ greetingRead \/ requestRead
    \/ upstreamDial \/ upstreamGreeting \/ upstreamReply

SpecSetup == Init /\ [][NextSetup]_vars /\ WF_vars(NextSetup)

\* One call of CheckProxies, for every number of candidates and every
\* maxConcurrent within the bounds.
InitCheck ==
    /\ heap = [a \in Addrs |-> <<>>]
    /\ proxies = Nil
    /\ current = 0
    /\ muW = NoThread
    /\ muR = {}
    /\ pc = [t \in Threads |-> "idle"]
    /\ call = [t \in Threads |-> NoCall]
    /\ snap = Nil
    /\ activeIdx = 0
    /\ held = Nil
    /\ writes = 0
    /\ io = <<>>
    /\ target = NoTarget
    /\ i = 0
    /\ sel = <<>>
    /\ dials = <<>>
    /\ relayed = 0
    /\ idx0 = 0
    /\ fwd = <<>>
    /\ clientOpen = FALSE
    /\ upOpen = 0
    /\ disturbed = FALSE
    /\ flow = NoFlow
    /\ cp = [d \in Dirs |-> "copy"]
    /\ done = 0
    /\ maxConcurrent \in 1..MaxConc
    /\ candidates \in 0..MaxCand
    /\ spawned = 0
    /\ sem = 0
    /\ wg = 0
    /\ gor = [k \in 1..MaxCand |-> NoGor]
    /\ aliveMu = 0
    /\ alive = <<>>
    /\ probed = {}
    /\ ckPc = "loop"
    /\ refreshChan = 0
    /\ lastScrapeTime = 0
    /\ nextScrapeTime = 0
    /\ now = 1
    /\ booted = FALSE
    /\ cyc = NoCycle
    /\ trigs = 0
    /\ coalesced = 0
    /\ sinceTrigger = 0
    /\ inRefresh = {}
    /\ phase = "idle"
    /\ ops = <<>>
    /\ silent = {}
    /\ upDeadline = "none"
    /\ tries = 0

NextCheck ==
    \/ spawn \/ waitAll \/ checkReturn
    \/ \E k \in 1..MaxCand :
        \/ geoLookup(k) \/ probe(k)
        \/ lockAlive(k) \/ appendAlive(k)
        \/ releaseSem(k) \/ wgDone(k)

SpecCheck == InitCheck /\ [][NextCheck]_vars

\* The values flag.IntVar accepts for -max-concurrent, which refreshPool
\* hands to CheckProxies as they are: any int, within the bounds.
MaxConcurrents == -1..MaxConc

\* One call of CheckProxies from its first statement, with maxConcurrent as
\* configured.
InitConfigured ==
    /\ heap = [a \in Addrs |-> <<>>]
    /\ proxies = Nil
    /\ current = 0
    /\ muW = NoThread
    /\ muR = {}
    /\ pc = [t \in Threads |-> "idle"]
    /\ call = [t \in Threads |-> NoCall]
    /\ snap = Nil
    /\ activeIdx = 0
    /\ held = Nil
    /\ writes = 0
    /\ io = <<>>
    /\ target = NoTarget
    /\ i = 0
    /\ sel = <<>>
    /\ dials = <<>>
    /\ relayed = 0
    /\ idx0 = 0
    /\ fwd = <<>>
    /\ clientOpen = FALSE
    /\ upOpen = 0
    /\ disturbed = FALSE
    /\ flow = NoFlow
    /\ cp = [d \in Dirs |-> "copy"]
    /\ done = 0
    /\ maxConcurrent \in MaxConcurrents
    /\ candidates \in 0..MaxCand
    /\ spawned = 0
    /\ sem = 0
    /\ wg = 0
    /\ gor = [k \in 1..MaxCand |-> NoGor]
    /\ aliveMu = 0
    /\ alive = <<>>
    /\ probed = {}
    /\ ckPc = "start"
    /\ refreshChan = 0
    /\ lastScrapeTime = 0
    /\ nextScrapeTime = 0
    /\ now = 1
    /\ booted = FALSE
    /\ cyc = NoCycle
    /\ trigs = 0
    /\ coalesced = 0
    /\ sinceTrigger = 0
    /\ inRefresh = {}
    /\ phase = "idle"
    /\ ops = <<>>
    /\ silent = {}
    /\ upDeadline = "none"
    /\ tries = 0

NextConfigured ==
    \/ makeSem
    \/ spawn \/ waitAll \/ checkReturn
    \/ \E k \in 1..MaxCand :
        \/ geoLookup(k) \/ probe(k)
        \/ lockAlive(k) \/ appendAlive(k)
        \/ releaseSem(k) \/ wgDone(k)

\* Every goroutine that can run does run, and each verification step ends.
SpecConfigured == InitConfigured /\ [][NextConfigured]_vars /\ WF_vars(NextConfigured)

\* ---------------------------------------------------------------- the pool
\* An Update that has replaced p.proxies and not yet reset p.current.
UpdateHalfDone == \E t \in Threads : call[t].op = "Update" /\ call[t].st = "body2"

\* C1: after any sequence of Update, SwitchNext and SwitchTo calls, in any
\* interleaving, a non-empty pool has 0 <= current < len(proxies).  The one
\* moment this is not so lies inside Update, between its two writes, where
\* the write lock keeps every reader out.
C1_IndexInRange ==
    /\ ~UpdateHalfDone => (Len(PoolSeq) > 0 => (0 <= current /\ current < Len(PoolSeq)))
    /\ UpdateHalfDone => muW # NoThread /\ muR = {}

\* C1's case: an Update has replaced a list by a shorter, non-empty one while
\* the active index pointed beyond the new list's end.
C1_Witness ==
    /\ Returning("refresh", "Update")
    /\ Len(PoolSeq) > 0
    /\ call["refresh"].pre[2] >= Len(PoolSeq)

\* SwitchNext applied k times to index c of a pool of n proxies.
RECURSIVE SwitchNextTimes(_, _, _)
SwitchNextTimes(c, n, k) ==
    IF k = 0 THEN c ELSE SwitchNextTimes(NextIndex(c, n), n, k - 1)

\* C4: SwitchNext on a non-empty pool sets the index to (old + 1) mod size and
\* returns the proxy at the new index with ok = true, so that size calls in a
\* row lead back to the index they started from; on an empty pool it returns
\* ok = false and changes nothing.  Stated where SwitchNext is about to return,
\* `pre` being the pool as SwitchNext found it.
C4_SwitchNext ==
    \A t \in Threads :
        Returning(t, "SwitchNext") =>
            LET s == call[t].pre[1]
                c == call[t].pre[2]
            IN  /\ PoolSeq = s
                /\ IF Len(s) = 0
                   THEN call[t].ret = <<NoProxy, FALSE>> /\ current = c
                   ELSE /\ current = (c + 1) % Len(s)
                        /\ current \in 0..(Len(s) - 1)
                        /\ call[t].ret = <<s[current + 1], TRUE>>
                        /\ SwitchNextTimes(c, Len(s), Len(s)) = c
                        /\ \A k \in 1..(Len(s) - 1) : SwitchNextTimes(c, Len(s), k) # c

\* C4's case: SwitchNext has wrapped around from the last proxy of a pool of
\* several to the first.
C4_Witness ==
    /\ Returning("switch", "SwitchNext")
    /\ Len(PoolSeq) >= 2
    /\ call["switch"].pre[2] = Len(PoolSeq) - 1
    /\ current = 0

\* C5: SwitchTo(index) with 0 <= index < size sets the active index to index
\* and returns (proxies[index], true); for every other index (negative, at or
\* beyond the size, anything on an empty pool) it returns ok = false and leaves
\* the sequence and the active index as they were.
C5_SwitchTo ==
    \A t \in Threads :
        Returning(t, "SwitchTo") =>
            LET s == call[t].pre[1]
                c == call[t].pre[2]
                index == call[t].arg
            IN  /\ PoolSeq = s
                /\ IF 0 <= index /\ index < Len(s)
                   THEN current = index /\ call[t].ret = <<s[index + 1], TRUE>>
                   ELSE current = c /\ call[t].ret = <<NoProxy, FALSE>>

\* C5's case: SwitchTo has refused the first index beyond the end of a
\* non-empty pool whose active index is not 0.
C5_Witness ==
    /\ Returning("switch", "SwitchTo")
    /\ Len(PoolSeq) > 0
    /\ call["switch"].arg = Len(PoolSeq)
    /\ current > 0
    /\ call["switch"].ret = <<NoProxy, FALSE>>

\* ------------------------------------------------------- the status surface
\* C2: an observer that reads All() and then CurrentIndex(), as getStatusData
\* does, never obtains an inconsistent pair: the index CurrentIndex answers is
\* in range of the snapshot All returned, so that it designates a proxy of
\* that snapshot and not a position of another (older or newer) sequence.
C2_ConsistentPair ==
    Returning("status", "CurrentIndex") =>
        LET s == Deref(heap, snap)
            idx == call["status"].ret[1]
        IN  Len(s) > 0 => (0 <= idx /\ idx < Len(s))

\* The Update calls that hold the write lock.
UpdateInFlight ==
    {u \in Threads : call[u].op = "Update" /\ call[u].st \in {"body", "body2", "unlock"}}

\* The sequence an Update in flight installs.
NewSeq(u) == IF call[u].st = "body" THEN Deref(heap, call[u].arg) ELSE PoolSeq

\* C3: Update replaces the sequence and resets the index as one atomic step
\* for Current: where Current is about to return, its result is that of the
\* pool as it stands and no Update is under way; were one under way, the
\* result would have to be the active proxy of the whole old pool or element
\* 0 of the whole new list.
C3_UpdateAtomic ==
    \A t \in Threads :
        Returning(t, "Current") =>
            IF UpdateInFlight = {}
            THEN call[t].ret = CurrentOf(PoolSeq, current)
            ELSE \A u \in UpdateInFlight :
                    call[t].ret \in {CurrentOf(call[u].pre[1], call[u].pre[2]),
                                     CurrentOf(NewSeq(u), 0)}

\* C3's case: Current has read the pool, whose active index is not 0, while an
\* Update with another list has been called and waits for the lock.
C3_Witness ==
    /\ Returning("status", "Current")
    /\ current > 0
    /\ call["refresh"].op = "Update"
    /\ call["refresh"].st = "lock"
    /\ Deref(heap, call["refresh"].arg) # PoolSeq

\* ------------------------------------------------------------ a snapshot
\* The slice the caller of All() was given.
HeldSeq == Deref(heap, held)

\* C6: the slice All() returns is a snapshot.  While the caller holds it, a
\* step in which the caller does not write to it (every step of Update,
\* SwitchNext and SwitchTo is one) leaves its contents as they are, and a
\* write of the caller to it leaves the pool's sequence and active index as
\* they are.
C6_Snapshot ==
    /\ [][(held # Nil /\ held' = held /\ writes' = writes) => HeldSeq' = HeldSeq]_vars
    /\ [][(held # Nil /\ writes' > writes) =>
            (HeldSeq' # HeldSeq /\ PoolSeq' = PoolSeq /\ current' = current)]_vars

\* C6's case: the caller holds a snapshot of a non-empty pool, has written to
\* it, and the pool has since been given another list and another index.
C6_Witness ==
    /\ held # Nil
    /\ held # proxies
    /\ writes > 0
    /\ Len(HeldSeq) > 0
    /\ Len(PoolSeq) > Len(HeldSeq)
    /\ current > 0

\* ------------------------------------------------------ a client connection
IsWrite(e) == e.ev = "write"
IsReply(e) == e.ev = "write" /\ e.kind = "reply"
IsRelay(e) == e.ev = "write" /\ e.kind = "relay"
IsMethod(e) == e.ev = "write" /\ e.kind = "method"
IsGreeting(e) == e.ev = "read" /\ e.kind = "greeting"
IsRequest(e) == e.ev = "read" /\ e.kind = "request"

\* The byte strings written to the client, in order.
Written == LET w == SelectSeq(io, IsWrite) IN [k \in 1..Len(w) |-> w[k].data]
Replies == SelectSeq(io, IsReply)

\* The replies of RFC 1928 with a zero bound address: 05 st 00 01 0.0.0.0 0.
Rfc1928Reply(st) == <<5, st, 0, 1, 0, 0, 0, 0, 0, 0>>
MethodNoAuth == <<5, 0>>

\* C7: for one CONNECT the handler makes at most 3 upstream attempts, the
\* first on Pool.Current() and the later ones on Pool.SwitchNext(), and stops
\* at the first dial that succeeds.  Undisturbed by other writers, the pool's
\* active index has then advanced by one per attempt after the first; with
\* three upstreams of which the first two fail and the third succeeds, the
\* client is written the method reply, one success reply and nothing between
\* them, and the active index has advanced by exactly 2.
C7_Failover ==
    /\ Len(sel) <= 3
    /\ Len(dials) <= Len(sel)
    /\ \A k \in 1..Len(sel) :
        sel[k].op = (IF k = 1 THEN "Current" ELSE "SwitchNext")
    /\ \A k \in 1..Len(dials) :
        /\ sel[k].ok
        /\ dials[k].up = sel[k].up
        /\ dials[k].ok =>
            /\ k = Len(dials)
            /\ k = Len(sel)
            /\ pc["conn"] \in {"relay", "closed"}
    /\ (/\ ~disturbed
        /\ pc["conn"] \in {"dial", "relay", "closed"}
        /\ Len(sel) > 0
        /\ Len(PoolSeq) > 0) =>
        /\ current = (idx0 + Len(sel) - 1) % Len(PoolSeq)
        /\ \A k \in 1..Len(sel) : sel[k].up = PoolSeq[((idx0 + k - 1) % Len(PoolSeq)) + 1]
    /\ (/\ ~disturbed
        /\ Len(PoolSeq) = 3
        /\ Len(dials) = 3
        /\ ~dials[1].ok /\ ~dials[2].ok /\ dials[3].ok) =>
            /\ Len(Written) >= 2
            /\ Written[1] = MethodNoAuth
            /\ Written[2] = Rfc1928Reply(0)
            /\ Len(Replies) = 1
            /\ current = (idx0 + 2) % 3
            /\ current # idx0

\* C7's case: three upstreams, two failed dials and a third that succeeded,
\* with no other writer in between.
C7_Witness ==
    /\ pc["conn"] = "relay"
    /\ ~disturbed
    /\ Len(PoolSeq) = 3
    /\ Len(dials) = 3
    /\ ~dials[1].ok /\ ~dials[2].ok /\ dials[3].ok

\* C8: when the pool has no proxy at a selection (the first or a later one),
\* or when all 3 attempts fail, the client is written exactly the general
\* failure reply 05 01 00 01 00 00 00 00 00 00 after the method reply, and
\* the connection is closed with nothing relayed.
C8_GeneralFailure ==
    (\/ Len(sel) > 0 /\ ~sel[Len(sel)].ok
     \/ Len(dials) = 3 /\ \A k \in 1..3 : ~dials[k].ok) =>
        /\ pc["conn"] = "closed"
        /\ Written = <<MethodNoAuth, <<5, 1, 0, 1, 0, 0, 0, 0, 0, 0>>>>
        /\ relayed = 0

\* C8's case: the pool was emptied by a concurrent Update after a failed
\* attempt, so that a later SwitchNext found no proxy.
C8_Witness ==
    /\ pc["conn"] = "closed"
    /\ Len(sel) >= 2
    /\ ~sel[Len(sel)].ok
    /\ Len(dials) = Len(sel) - 1

\* C9: after the method reply the handler writes exactly one SOCKS5 reply on
\* every path, after it has read the client's request; bytes are relayed only
\* after a success reply, and nothing follows an error reply.
C9_ReplyOrder ==
    /\ Len(Replies) <= 1
    /\ \A k \in 1..Len(io) :
        /\ IsReply(io[k]) =>
            /\ \E j \in 1..(k - 1) : IsRequest(io[j])
            /\ \E j \in 1..(k - 1) : IsMethod(io[j])
            /\ io[k].data[2] # 0 => (k = Len(io) /\ pc["conn"] = "closed")
        /\ IsRelay(io[k]) =>
            \E j \in 1..(k - 1) : IsReply(io[j]) /\ io[j].data[2] = 0
    /\ pc["conn"] = "relay" => (Len(Replies) = 1 /\ Replies[1].data = Rfc1928Reply(0))
    /\ (pc["conn"] = "closed" /\ \E k \in 1..Len(io) : IsMethod(io[k])) =>
        Len(Replies) = 1

\* C9's case: a connection that failed over, replied success, relayed and
\* closed.
C9_Witness ==
    /\ pc["conn"] = "closed"
    /\ Len(dials) >= 2
    /\ relayed > 0

\* The address of a request: its type is not one of 01, 03, 04, or the
\* request is too short for the address its type announces.
ShortForAtyp(b) ==
    \/ b[4] = 1 /\ Len(b) < 10
    \/ b[4] = 4 /\ Len(b) < 22
    \/ b[4] = 3 /\ (Len(b) < 5 \/ Len(b) < 5 + b[5] + 2)
BadAddress(b) == Len(b) >= 4 /\ (b[4] \notin {1, 3, 4} \/ ShortForAtyp(b))
BadGreeting(e) == e.err \/ Len(e.data) < 2 \/ e.data[1] # 5
HasCommand(e) == ~e.err /\ Len(e.data) >= 2

\* Nothing was written, no upstream chosen or dialed.
Untouched == sel = <<>> /\ dials = <<>> /\ call["conn"] = NoCall /\ relayed = 0

\* C10 as claimed: a bad greeting is closed with nothing written; a request
\* whose command is not CONNECT gets 05 07; a CONNECT request with an
\* unsupported ATYP, or too short for its ATYP, gets 05 04; each time the
\* connection is closed and the pool was not touched.
C10_AsClaimed ==
    \A k \in 1..Len(io) :
        /\ (IsGreeting(io[k]) /\ BadGreeting(io[k])) =>
            (pc["conn"] = "closed" /\ Written = <<>> /\ Untouched)
        /\ (IsRequest(io[k]) /\ HasCommand(io[k]) /\ io[k].data[2] # 1) =>
            (pc["conn"] = "closed" /\ Untouched
             /\ Written = <<MethodNoAuth, Rfc1928Reply(7)>>)
        /\ (IsRequest(io[k]) /\ HasCommand(io[k]) /\ io[k].data[2] = 1
                /\ BadAddress(io[k].data)) =>
            (pc["conn"] = "closed" /\ Untouched
             /\ Written = <<MethodNoAuth, Rfc1928Reply(4)>>)

\* C10, amended: a bad greeting is closed with nothing written; a request
\* that could not be read, is shorter than 7 bytes or whose command is not
\* CONNECT gets 05 07; a CONNECT request of at least 7 bytes with an
\* unsupported ATYP, or too short for its ATYP, gets 05 04; each time the
\* connection is closed and the pool was not touched.
C10_Malformed ==
    \A k \in 1..Len(io) :
        /\ (IsGreeting(io[k]) /\ BadGreeting(io[k])) =>
            (pc["conn"] = "closed" /\ Written = <<>> /\ Untouched)
        /\ (IsRequest(io[k])
                /\ (io[k].err \/ Len(io[k].data) < 7 \/ io[k].data[2] # 1)) =>
            (pc["conn"] = "closed" /\ Untouched
             /\ Written = <<MethodNoAuth, Rfc1928Reply(7)>>)
        /\ (IsRequest(io[k]) /\ ~io[k].err /\ Len(io[k].data) >= 7
                /\ io[k].data[2] = 1 /\ BadAddress(io[k].data)) =>
            (pc["conn"] = "closed" /\ Untouched
             /\ Written = <<MethodNoAuth, Rfc1928Reply(4)>>)

\* C10's case: a CONNECT request for an IPv4 address, cut off after 6 bytes,
\* was answered 05 07.
C10_Witness ==
    /\ pc["conn"] = "closed"
    /\ Len(io) = 4
    /\ io[3].data = <<5, 1, 0, 1, 127, 0>>
    /\ io[4].data = Rfc1928Reply(7)

\* ------------------------------------------------------------ forwarding
\* The request the client sent, once it was read.
ClientRequest == (SelectSeq(io, IsRequest))[1].data

\* The upstream CONNECT for an inbound CONNECT b: the same address type,
\* the same address bytes (for a name, length-prefixed) and the same port.
UpstreamConnect(b) ==
    <<5, 1, 0>> \o
    (CASE b[4] = 1 -> <<1>> \o SubSeq(b, 5, 8) \o SubSeq(b, 9, 10)
       [] b[4] = 4 -> <<4>> \o SubSeq(b, 5, 20) \o SubSeq(b, 21, 22)
       [] b[4] = 3 -> <<3, b[5]>> \o SubSeq(b, 6, 5 + b[5])
                        \o SubSeq(b, 6 + b[5], 7 + b[5]))

\* C11: a well-formed CONNECT of any supported address type (IPv4, domain
\* name, IPv6) that is dialed through a healthy upstream is forwarded: the
\* dial succeeds, the upstream was sent a CONNECT with the same host and
\* port in the encoding of its address type, and the client is written the
\* success reply.
C11_Forwarded ==
    \A k \in 1..Len(dials) :
        dials[k].healthy =>
            /\ dials[k].ok
            /\ fwd = UpstreamConnect(ClientRequest)
            /\ Len(Written) >= 2
            /\ Written[2] = Rfc1928Reply(0)

\* ---------------------------------------------------------------- sockets
\* C20: every socket of a connection is released on every exit path of its
\* handler: the client socket is closed when handleConn has returned, an
\* upstream socket opened by a failed dial is closed before the next
\* attempt, and after relay both sockets are closed.
C20_SocketsReleased ==
    /\ upOpen >= 0
    /\ pc["conn"] \in {"idle", "closed"} => (~clientOpen /\ upOpen = 0)
    /\ pc["conn"] \in {"greeting", "request", "select", "dial"} =>
        (clientOpen /\ upOpen = 0)
    /\ pc["conn"] = "relay" => (clientOpen /\ upOpen = 1)

\* C20's case: a handler that returned after three dials, each of which had
\* opened an upstream socket and failed.
C20_Witness ==
    /\ pc["conn"] = "closed"
    /\ Len(dials) = 3
    /\ \A k \in 1..3 : dials[k].healthy /\ ~dials[k].ok

\* ------------------------------------------------------------------ relay
IsPrefix(a, b) == Len(a) <= Len(b) /\ a = SubSeq(b, 1, Len(a))

AlivePos(k) == {j \in 1..Len(alive) : alive[j].px = k}

\* C13: CheckProxies preserves input order: of two candidates that both
\* pass, the one that comes first in the input comes first in the output,
\* for every maxConcurrent >= 1 and every completion order.
C13_InputOrder ==
    \A a, b \in 1..Len(alive) : a < b => alive[a].px < alive[b].px

\* The verifications in progress: the goroutines between acquiring and
\* releasing their slot of the semaphore.
InProgress == {k \in 1..MaxCand : gor[k].st \in {"geo", "probe", "lock", "append", "release"}}

\* C14: at every instant at most maxConcurrent verifications are in
\* progress.
C14_AtMostMaxConcurrent ==
    /\ Cardinality(InProgress) <= maxConcurrent
    /\ sem = Cardinality(InProgress)

\* C14's case: as many verifications in progress as maxConcurrent allows,
\* and a further candidate waiting for a slot.
C14_Witness ==
    /\ ckPc = "loop"
    /\ spawned < candidates
    /\ Cardinality(InProgress) = maxConcurrent

\* The lookups that name a blocked country: "China", " HONG KONG ".
BlockedLookups == {"China", "Hong Kong"}

\* C15: a candidate whose country, trimmed and lower-cased, is "china" or
\* "hong kong" never appears in the output and is never probed; the lookup
\* always comes before the probe.
C15_GeoBlocked ==
    \A k \in 1..MaxCand :
        /\ gor[k].geo \in BlockedLookups => (k \notin probed /\ AlivePos(k) = {})
        /\ k \in probed => gor[k].geo # ""

\* C15's case: CheckProxies returned; one candidate was looked up as
\* " HONG KONG " and the other was served and is in the output.
C15_Witness ==
    /\ ckPc = "returned"
    /\ gor[1].geo = "Hong Kong"
    /\ gor[2].served
    /\ Len(alive) = 1

\* What a lookup is to record as (country, city): "Unknown", "" when it
\* failed or read nothing; "Japan", "Tokyo".
Discovered(geo) ==
    IF geo \in {"dial error", "read error", "nothing read"}
    THEN <<<<85, 110, 107, 110, 111, 119, 110>>, <<>>>>
    ELSE <<<<74, 97, 112, 97, 110>>, <<84, 111, 107, 121, 111>>>>

C17_Coalesced ==
    /\ refreshChan <= 1
    /\ pc["trigger"] = "select" => ENABLED triggerSelect
    /\ sinceTrigger <= 1

\* MaxTrig triggers were made while one cycle ran, and the one manual cycle
\* that answers them has started, leaving nothing pending.
C17_Witness ==
    /\ cyc.kind = "manual"
    /\ coalesced = MaxTrig
    /\ sinceTrigger = 1
    /\ refreshChan = 0
    /\ pc["trigger"] = "idle"

\* C18: a cycle whose Scrape failed is over at once: CheckProxies did not
\* run, Update was not called, and the pool's sequence, its active index,
\* lastScrapeTime and nextScrapeTime are what the cycle found.
C18_ScrapeErrorAborts ==
    cyc.err =>
        /\ \A t \in Refreshers : pc[t] = "idle" /\ call[t] = NoCall
        /\ ~cyc.checked
        /\ <<PoolSeq, current, lastScrapeTime, nextScrapeTime>> = cyc.pre

\* A cycle of the loop failed to scrape, over a pool that an earlier cycle
\* had filled, at a later time than that cycle's.
C18_Witness ==
    /\ cyc.err
    /\ cyc.kind \in {"tick", "manual"}
    /\ Len(PoolSeq) > 1
    /\ lastScrapeTime > 0
    /\ now > lastScrapeTime

\* C19: the rotation loop's SwitchNext, once it holds the lock, finds a pool
\* of more than one proxy, also when an Update runs beside the rotation.
C19_RotatesOnlyLargePool ==
    (call["rotate"].op = "SwitchNext" /\ call["rotate"].st \in {"body", "unlock"})
        => Len(call["rotate"].pre[1]) > 1


\* C22: refreshPool is not re-entrant.  Across the initial call, the ticks
\* and the manual triggers, at most one thread is inside refreshPool, so
\* at most one is in its scrape, check, Update or timing phase, and no two
\* cycles have a pool.Update in progress together.
C22_OneCycleAtATime ==
    /\ Cardinality(inRefresh) <= 1
    /\ Cardinality({t \in Refreshers : pc[t] # "idle"}) <= 1
    /\ Cardinality({t \in Refreshers : call[t].op = "Update"}) <= 1

\* The initial cycle is over and a cycle of the loop is inside Update,
\* holding the pool's lock, while a manual trigger is pending.
C22_Witness ==
    /\ booted
    /\ inRefresh = {"refresh"}
    /\ call["refresh"].op = "Update"
    /\ muW = "refresh"
    /\ refreshChan = 1
    /\ Len(PoolSeq) > 0


\* C23: CheckProxies terminates for every candidate list and every
\* configured maxConcurrent when each verification terminates: it returns,
\* and when it has returned every goroutine it started is over and has
\* given its slot back.
C23_Terminates ==
    /\ <>(ckPc = "returned")
    /\ [](ckPc = "returned" =>
            /\ sem = 0 /\ wg = 0
            /\ \A k \in 1..MaxCand : gor[k].st = IF k <= candidates THEN "exit" ELSE "none")


\* C21: every blocking operation of the setup carries a deadline, so a
\* handler whose peer stops sending leaves the setup, to relay or to the
\* close of the connection; and relay runs with the upstream's deadline
\* cleared.
C21_SetupBounded ==
    /\ [](\A k \in 1..Len(ops) : ops[k].deadline)
    /\ (phase \in SetupPhases) ~> (phase \in {"relay", "closed"})
    /\ [](phase = "relay" => upDeadline = "cleared")

====
